---- MODULE Spec2Model ----
(***************************************************************************)
(* Quota-controlled recommendation retrieval pipeline of exploreBlueV2.    *)
(*                                                                         *)
(* The cache is the in-process store of MemoryCacheService (two maps,      *)
(* values and expiry instants).  QuotaService keeps its rate-limit buckets,*)
(* daily usage counters and quota overrides in that cache.                 *)
(*                                                                         *)
(* Time is the UTC wall clock in seconds.  A handler runs at one instant;  *)
(* Tick moves the clock between handlers.                                  *)
(*                                                                         *)
(* The modules are taken to load: imports of modules of the repository and *)
(* annotations in class bodies resolve.  A name a function body evaluates   *)
(* resolves the way Python resolves it: vector_service.py binds neither     *)
(* timedelta nor datetime, so evaluating either there raises NameError.     *)
(***************************************************************************)
EXTENDS Integers, Sequences, FiniteSets, TLC

(***************************************************************************)
(* Bounds of the exploration                                               *)
(***************************************************************************)
\* days and minutes-of-day the clock may show
MaxDay == 1
MaxMinute == 1
\* cap on QuotaService.record_request calls counted per day
MaxUsage == 11
\* cap on check_rate_limit calls issued in one minute bucket
MaxRateCalls == 7

(***************************************************************************)
(* Program constants                                                       *)
(***************************************************************************)
SecondsPerMinute == 60
SecondsPerDay == 86400
\* timedelta(days=30) of update_user_quota
OverrideDays == 30
\* fallbacks of dict.get in the limit tables
DefaultRateLimit == 10
DefaultRoleQuota == 50

NoDepartment == "none"

\* seconds within a minute at which the clock is observed
SecondMarks == {0, 30}

Instants ==
    { d * SecondsPerDay + m * SecondsPerMinute + s :
        d \in 0..MaxDay, m \in 0..MaxMinute, s \in SecondMarks }

\* strftime('%Y%m%d%H%M'): the minute the instant falls in
MinuteOf(t) == t \div SecondsPerMinute
\* datetime.utcnow().date()
DateOf(t) == t \div SecondsPerDay
\* datetime.combine(date, datetime.min.time())
StartOfDay(d) == d * SecondsPerDay

(***************************************************************************)
(* Users and settings                                                      *)
(***************************************************************************)
UserRole == {"student", "graduate_student", "faculty", "staff", "admin", "guest"}

Users ==
    { [id |-> "guest", role |-> "guest", department |-> NoDepartment],
      [id |-> "u1", role |-> "student", department |-> "business"] }

\* get_settings(): the settings class in force
SettingsKinds == {"development", "university"}

\* QuotaService._get_rate_limit_for_user: base_limits.get(user.role, 10)
base_limits ==
    [r \in UserRole |->
        CASE r = "guest" -> 5
          [] r = "student" -> 20
          [] r = "graduate_student" -> 30
          [] r = "faculty" -> 50
          [] r = "staff" -> 40
          [] r = "admin" -> 100]

get_rate_limit_for_user(u) ==
    IF u.role \in DOMAIN base_limits THEN base_limits[u.role] ELSE DefaultRateLimit

\* getattr(self.settings, 'role_quotas', {...}): UniversitySettings defines
\* the attribute, the other settings classes fall back to the literal
role_quotas(s) ==
    IF s = "university"
    THEN [r \in {"student", "faculty", "staff", "admin"} |->
            CASE r = "student" -> 50
              [] r = "faculty" -> 200
              [] r = "staff" -> 100
              [] r = "admin" -> 1000]
    ELSE [r \in UserRole |->
            CASE r = "guest" -> 10
              [] r = "student" -> 50
              [] r = "graduate_student" -> 75
              [] r = "faculty" -> 200
              [] r = "staff" -> 100
              [] r = "admin" -> 1000]

\* getattr(self.settings, 'department_quotas', {})
department_quotas(s) ==
    IF s = "university"
    THEN [d \in {"engineering", "liberal_arts", "business", "default"} |->
            CASE d = "engineering" -> 1000
              [] d = "liberal_arts" -> 500
              [] d = "business" -> 300
              [] d = "default" -> 100]
    ELSE [d \in {} |-> 0]

\* faulty resolution: the department quota is never looked at
get_quota_for_user_role_only(s, u) ==
    LET rq == role_quotas(s)
    IN  IF u.role \in DOMAIN rq THEN rq[u.role] ELSE DefaultRoleQuota

\* QuotaService._get_quota_for_user: the override key is built and never
\* read; the department quota wins over the role quota
get_quota_for_user(s, u) ==
    LET rq == role_quotas(s)
        base_quota == IF u.role \in DOMAIN rq THEN rq[u.role] ELSE DefaultRoleQuota
        dq == department_quotas(s)
    IN  IF u.department # NoDepartment /\ u.department \in DOMAIN dq
        THEN dq[u.department]
        ELSE base_quota

(***************************************************************************)
(* MemoryCacheService: a store is [cache |-> values, expiry |-> instants]  *)
(***************************************************************************)
Restrict(f, S) == [k \in S |-> f[k]]

Put(f, k, v) == [x \in DOMAIN f \cup {k} |-> IF x = k THEN v ELSE f[x]]

\* faulty cleanup: the expiry instant of an expired key is dropped, its
\* value stays
cleanup_expired_keeps_values(S, t) ==
    LET expired_keys == {k \in DOMAIN S.expiry : S.expiry[k] < t}
    IN  [cache |-> S.cache,
         expiry |-> Restrict(S.expiry, DOMAIN S.expiry \ expired_keys)]

\* _cleanup_expired: drops every key whose expiry instant is before now
cleanup_expired(S, t) ==
    LET expired_keys == {k \in DOMAIN S.expiry : S.expiry[k] < t}
    IN  [cache |-> Restrict(S.cache, DOMAIN S.cache \ expired_keys),
         expiry |-> Restrict(S.expiry, DOMAIN S.expiry \ expired_keys)]

\* get: the store after the call (the cleanup is a side effect of reading)
MemGet(S, t) == cleanup_expired(S, t)

\* set with an explicit expire: value and expiry instant are replaced
MemSet(S, t, k, v, expire) ==
    [cache |-> Put(S.cache, k, v), expiry |-> Put(S.expiry, k, t + expire)]

\* faulty delete: the expiry instant is dropped, the value stays
MemDeleteExpiryOnly(S, k) ==
    [cache |-> S.cache, expiry |-> Restrict(S.expiry, DOMAIN S.expiry \ {k})]

\* delete: the key leaves both maps, no cleanup runs
MemDelete(S, k) ==
    [cache |-> Restrict(S.cache, DOMAIN S.cache \ {k}),
     expiry |-> Restrict(S.expiry, DOMAIN S.expiry \ {k})]

\* what delete returns: key in self.cache
MemDeleted(S, k) == k \in DOMAIN S.cache

\* increment: cleanup, then cache[key] = cache.get(key, 0) + amount; the
\* expiry map is not touched
MemIncrement(S, t, k, amount) ==
    LET C == cleanup_expired(S, t)
        current == IF k \in DOMAIN C.cache THEN C.cache[k] ELSE 0
    IN  [cache |-> Put(C.cache, k, current + amount), expiry |-> C.expiry]

\* `await cache.get(key) or d` for a counter key, read from a cleaned store
GetOr(S, k, d) ==
    IF k \in DOMAIN S.cache /\ S.cache[k] # 0 THEN S.cache[k] ELSE d

(***************************************************************************)
(* QuotaService                                                            *)
(***************************************************************************)
\* faulty key: the minute is left out of the bucket key
RateLimitKeyNoMinute(u, t) == <<"rate_limit", u.id, 0>>

\* f"rate_limit:{user.id}:{now.strftime('%Y%m%d%H%M')}"
RateLimitKey(u, t) == <<"rate_limit", u.id, MinuteOf(t)>>

\* faulty key: the usage counter is keyed by the minute instead of the day
DailyUsageKeyPerMinute(uid, t) == <<"daily_usage", uid, MinuteOf(t)>>

\* f"daily_usage:{user.id}:{today.isoformat()}"
DailyUsageKey(uid, t) == <<"daily_usage", uid, DateOf(t)>>

\* f"quota_override:{user_id}"
QuotaOverrideKey(uid) == <<"quota_override", uid, 0>>

\* faulty test: a count equal to the limit still passes
LimitReachedStrict(count, limit) == count > limit

\* the test `current_count >= rate_limit` / `current_usage >= quota_limit`
LimitReached(count, limit) == count >= limit

VARIABLES
    now,          \* datetime.utcnow(), seconds
    settings,     \* the settings class returned by get_settings()
    user,         \* the requester the operations are made for
    cache,        \* MemoryCacheService.cache
    expiry,       \* MemoryCacheService.expiry
    last,         \* the last QuotaService operation and the value it returned
    rlCalls,      \* history: check_rate_limit calls issued in the current minute bucket,
                  \* and the instants of the calls accepted in the last 60 seconds
    recCalls,     \* history: record_request calls of the day since the last reset
    sinceReset,   \* history: a reset ran and nothing was recorded since
    written,      \* history: the last write made to each cache key
    redis,        \* RedisCacheService.redis: "none", or a client whose server is "up" or "down"
    reqs,         \* the RecommendationRequest and requester of each pipeline call
    corpus,       \* VectorService._courses_data as seen by the query of the calls
    pc,           \* where each pipeline call stands
    expl,         \* relevance_explanation of the matches explained so far, per call
    sent,         \* provider chunks passed on by each streaming call
    emitted,      \* history: what each streaming call has yielded to its consumer
    orphan,       \* streaming provider calls whose consumer went away
    outcome,      \* how each pipeline call ended, and what it returned
    failed,       \* history: the stage of each call that failed last, if any
    locals,       \* local variables of the calls suspended between cache operations
    api_semaphore,   \* LLMService.api_semaphore: free slots
    embedding_lock,  \* VectorService._embedding_lock: the call holding it, 0 if free
    usage_records    \* UsageService.usage_records

quotaVars == <<now, settings, user, cache, expiry, last, rlCalls, recCalls, sinceReset, written, redis>>

pipeVars == <<reqs, corpus, pc, expl, sent, emitted, orphan, outcome, failed, locals,
              api_semaphore, embedding_lock, usage_records>>

vars == <<quotaVars, pipeVars>>

Store == [cache |-> cache, expiry |-> expiry]

CallsIn(b) == IF rlCalls.bucket = b THEN rlCalls.n ELSE 0

RecordedOn(d) == IF recCalls.day = d THEN recCalls.n ELSE 0

\* LLMService.__init__: asyncio.Semaphore(5)
SemaphoreSlots == 5

\* the services as constructed, before any pipeline call
ServicesInit ==
    /\ api_semaphore = SemaphoreSlots
    /\ embedding_lock = 0
    /\ usage_records = <<>>

\* no pipeline call is made
NoCalls ==
    /\ ServicesInit
    /\ reqs = <<>>
    /\ corpus = [eligible |-> 0, broken |-> FALSE]
    /\ pc = <<>>
    /\ expl = <<>>
    /\ sent = <<>>
    /\ emitted = <<>>
    /\ orphan = {}
    /\ outcome = <<>>
    /\ failed = <<>>
    /\ locals = <<>>

InitQuota ==
    /\ now = 0
    /\ settings \in SettingsKinds
    /\ user \in Users
    /\ cache = <<>>
    /\ expiry = <<>>
    /\ last = [op |-> "none"]
    /\ rlCalls = [bucket |-> 0, n |-> 0, prevFull |-> FALSE, window |-> <<>>]
    /\ recCalls = [day |-> 0, n |-> 0]
    /\ sinceReset = "no"
    /\ written = <<>>
    /\ redis = "up"
    /\ NoCalls

\* the wall clock advances between two handlers
Tick ==
    /\ \E t \in Instants : t > now /\ now' = t
    /\ last' = [op |-> "tick"]
    /\ sinceReset' = IF DateOf(now') = DateOf(now) THEN sinceReset ELSE "no"
    /\ UNCHANGED <<settings, user, cache, expiry, rlCalls, recCalls, written, redis, pipeVars>>

\* of the instants in w, those within the 60 seconds that end at t
InWindow(w, t) ==
    LET Recent(x) == x > t - SecondsPerMinute
    IN  SelectSeq(w, Recent)

\* the decision check_rate_limit returns on a stored count
RateDecision(current_count, rate_limit, t) ==
    IF LimitReached(current_count, rate_limit)
    THEN [op |-> "check_rate_limit", allowed |-> FALSE,
          current_count |-> current_count, limit |-> rate_limit,
          reset_time |-> t + SecondsPerMinute, retry_after |-> 60]
    ELSE [op |-> "check_rate_limit", allowed |-> TRUE,
          current_count |-> current_count + 1, limit |-> rate_limit,
          reset_time |-> t + SecondsPerMinute]

\* QuotaService.check_rate_limit(user), one call run to completion
CheckRateLimit ==
    LET key == RateLimitKey(user, now)
        S1 == MemGet(Store, now)
        current_count == GetOr(S1, key, 0)
        rate_limit == get_rate_limit_for_user(user)
        S2 == MemIncrement(S1, now, key, 1)
        S3 == MemSet(S2, now, key, current_count + 1, SecondsPerMinute)
        S4 == IF LimitReached(current_count, rate_limit) THEN S1 ELSE S3
        b == MinuteOf(now)
    IN  /\ CallsIn(b) < MaxRateCalls
        /\ last' = RateDecision(current_count, rate_limit, now)
        /\ cache' = S4.cache
        /\ expiry' = S4.expiry
        /\ rlCalls' = [bucket |-> b, n |-> CallsIn(b) + 1,
                       prevFull |-> IF rlCalls.bucket = b THEN rlCalls.prevFull
                                    ELSE rlCalls.n > rate_limit,
                       window |-> IF LimitReached(current_count, rate_limit)
                                  THEN InWindow(rlCalls.window, now)
                                  ELSE Append(InWindow(rlCalls.window, now), now)]
        /\ UNCHANGED <<now, settings, user, recCalls, sinceReset, written, redis, pipeVars>>

\* the decision check_quota returns on a stored count
QuotaDecision(current_usage, quota_limit, t) ==
    [op |-> "check_quota",
     allowed |-> ~LimitReached(current_usage, quota_limit),
     current_usage |-> current_usage,
     limit |-> quota_limit,
     reset_time |-> StartOfDay(DateOf(t) + 1)]

\* faulty check: check_quota counts the request it checks
CheckQuotaCounts ==
    LET daily_usage_key == DailyUsageKey(user.id, now)
        S1 == MemIncrement(Store, now, daily_usage_key, 1)
        current_usage == GetOr(S1, daily_usage_key, 0)
        quota_limit == get_quota_for_user(settings, user)
    IN  /\ last' = QuotaDecision(current_usage, quota_limit, now)
        /\ cache' = S1.cache
        /\ expiry' = S1.expiry
        /\ UNCHANGED <<now, settings, user, rlCalls, recCalls, sinceReset, written, redis, pipeVars>>

\* QuotaService.check_quota(user)
CheckQuota ==
    LET daily_usage_key == DailyUsageKey(user.id, now)
        S1 == MemGet(Store, now)
        current_usage == GetOr(S1, daily_usage_key, 0)
        quota_limit == get_quota_for_user(settings, user)
    IN  /\ last' = QuotaDecision(current_usage, quota_limit, now)
        /\ cache' = S1.cache
        /\ expiry' = S1.expiry
        /\ UNCHANGED <<now, settings, user, rlCalls, recCalls, sinceReset, written, redis, pipeVars>>

\* QuotaService.record_request(user)
RecordRequest ==
    LET today == DateOf(now)
        daily_usage_key == DailyUsageKey(user.id, now)
        S1 == MemIncrement(Store, now, daily_usage_key, 1)
        expire_delta == StartOfDay(today + 2) - now
        S2 == MemGet(S1, now)
        current_count == GetOr(S2, daily_usage_key, 1)
        S3 == MemSet(S2, now, daily_usage_key, current_count, expire_delta)
    IN  /\ RecordedOn(today) < MaxUsage
        /\ last' = [op |-> "record_request", value |-> TRUE]
        /\ cache' = S3.cache
        /\ expiry' = S3.expiry
        /\ recCalls' = [day |-> today, n |-> RecordedOn(today) + 1]
        /\ sinceReset' = "no"
        /\ UNCHANGED <<now, settings, user, rlCalls, written, redis, pipeVars>>

\* QuotaService.reset_user_quota(user_id)
ResetUserQuota ==
    LET daily_usage_key == DailyUsageKey(user.id, now)
        before == GetOr(cleanup_expired(Store, now), daily_usage_key, 0)
        S1 == MemDelete(Store, daily_usage_key)
    IN  /\ last' = [op |-> "reset_user_quota",
                    value |-> MemDeleted(Store, daily_usage_key)]
        /\ cache' = S1.cache
        /\ expiry' = S1.expiry
        /\ recCalls' = [day |-> DateOf(now), n |-> 0]
        /\ sinceReset' = IF LimitReached(before, get_quota_for_user(settings, user))
                         THEN "at_limit" ELSE "below"
        /\ UNCHANGED <<now, settings, user, rlCalls, written, redis, pipeVars>>

\* new_quota values passed to update_user_quota
NewQuotas == {5}

\* QuotaService.update_user_quota(user_id, new_quota)
UpdateUserQuota ==
    \E new_quota \in NewQuotas :
        LET S1 == MemSet(Store, now, QuotaOverrideKey(user.id), new_quota,
                         OverrideDays * SecondsPerDay)
        IN  /\ last' = [op |-> "update_user_quota", value |-> TRUE]
            /\ cache' = S1.cache
            /\ expiry' = S1.expiry
            /\ UNCHANGED <<now, settings, user, rlCalls, recCalls, sinceReset, written, redis, pipeVars>>

(***************************************************************************)
(* Recommendation pipeline: RecommendationService over LLMService,         *)
(* VectorService and UsageService.  A call advances from one suspension    *)
(* point to the next; provider calls end by returning or by failing.       *)
(***************************************************************************)
\* concurrent pipeline calls explored
MaxRequests == 2
\* concurrent pipeline calls explored under load: one more than the slots
MaxLoad == SemaphoreSlots + 1
\* corpus courses that pass the filter with similarity above the threshold
MaxEligible == 2
\* request.max_results values explored (the request model allows 1..50)
MaxResults == 2
\* chunks a provider stream delivers before it ends
MaxChunks == 1

\* expire=timedelta(hours=6) of the description cache
DescriptionTTL == 21600
\* expire=timedelta(hours=24) of the embedding cache
EmbeddingTTL == 86400
\* expire=timedelta(days=2) of the cached usage list
UsageTTL == 172800
\* limit=min(50, request.max_results * 3)
SearchCap == 50
CandidateFactor == 3

Min(a, b) == IF a <= b THEN a ELSE b

\* the query of the calls and what the providers return for it
Query == "q1"
Description == "d1"
Embedding == <<1, 0>>

\* f"course_description:{hash(query)}"
DescriptionKey(q) == <<"course_description", q, 0>>
\* f"embedding:{md5(text)}"
EmbeddingKey(text) == <<"embedding", text, 0>>
\* f"usage:{user_id}:{timestamp.strftime('%Y%m%d')}"
UsageKey(uid, t) == <<"usage", uid, DateOf(t)>>

\* inputs of a call: the request and whether a requester is passed; the
\* streaming call reads neither max_results beyond the search limit nor
\* include_explanations, so it is given the defaults' shape once.  ledger
\* tells how the usage ledger behaves for the call: it works, building the
\* UsageRecord raises ("record"), or the cache raises ("cache")
RequestInputs ==
    { [kind |-> "get", hasUser |-> h, max_results |-> m, include_explanations |-> e,
       ledger |-> "working"] :
        h \in BOOLEAN, m \in 1..MaxResults, e \in BOOLEAN }
    \cup
    { [kind |-> "stream", hasUser |-> h, max_results |-> 1, include_explanations |-> TRUE,
       ledger |-> "working"] :
        h \in BOOLEAN }

\* corpus states: a loaded corpus with n eligible courses, or one on which
\* the search raises inside its try block
CorpusStates ==
    { [eligible |-> n, broken |-> FALSE] : n \in 0..MaxEligible }
        \cup { [eligible |-> MaxEligible, broken |-> TRUE] }

Calls == DOMAIN pc

\* VectorService.search_similar_courses: the number of matches returned;
\* every exception is caught and answered with the empty list
search_similar_courses(c, limit) ==
    IF c.broken THEN 0 ELSE Min(limit, c.eligible)

\* similar_courses of call r
Similar(r) ==
    search_similar_courses(corpus, Min(SearchCap, reqs[r].max_results * CandidateFactor))

\* similar_courses[: request.max_results]
Recommended(r) == Min(Similar(r), reqs[r].max_results)

DescCached(S) == DescriptionKey(Query) \in DOMAIN S.cache

EmbCached(S) == EmbeddingKey(Description) \in DOMAIN S.cache

\* VectorService.generate_embedding up to its first suspension
EmbedEntry(r, S) ==
    IF EmbCached(S)
    THEN (IF reqs[r].kind = "get" THEN "search" ELSE "y_searching")
    ELSE "embed_wait"

\* LLMService.generate_course_description up to its first suspension
DescEntry(r, S) ==
    IF DescCached(S)
    THEN (IF reqs[r].kind = "get" THEN EmbedEntry(r, S) ELSE "y_understanding")
    ELSE "desc_wait"

\* faulty recorder: a failure inside record_request escapes it
record_request_raises(records, S, t, rec, ledger) ==
    IF ledger = "working"
    THEN [usage_records |-> Append(records, rec),
          store |-> MemSet(MemGet(S, t), t, UsageKey(rec.user_id, t),
                           Append(IF UsageKey(rec.user_id, t) \in DOMAIN MemGet(S, t).cache
                                  THEN MemGet(S, t).cache[UsageKey(rec.user_id, t)]
                                  ELSE <<>>, rec),
                           UsageTTL),
          returned |-> TRUE, raised |-> FALSE]
    ELSE [usage_records |-> IF ledger = "cache" THEN Append(records, rec) ELSE records,
          store |-> S, returned |-> FALSE, raised |-> TRUE]

\* UsageService.record_request: the record is built, appended to
\* usage_records and added to the cached list of the day; every exception
\* raised on the way is caught and answered with False
record_request(records, S, t, rec, ledger) ==
    LET key == UsageKey(rec.user_id, t)
        S1 == MemGet(S, t)
        cached_usage == IF key \in DOMAIN S1.cache THEN S1.cache[key] ELSE <<>>
    IN  CASE ledger = "working" ->
                [usage_records |-> Append(records, rec),
                 store |-> MemSet(S1, t, key, Append(cached_usage, rec), UsageTTL),
                 returned |-> TRUE, raised |-> FALSE]
          [] ledger = "record" ->
                [usage_records |-> records, store |-> S,
                 returned |-> FALSE, raised |-> FALSE]
          [] ledger = "cache" ->
                [usage_records |-> Append(records, rec), store |-> S,
                 returned |-> FALSE, raised |-> FALSE]

\* the record_request call of call r
Recording(r, success) ==
    record_request(usage_records, Store, now,
                   [user_id |-> user.id, request_type |-> reqs[r].kind,
                    success |-> success, call |-> r],
                   reqs[r].ledger)

\* UsageService.record_request, called under `if user:`
RecordUsage(r, success) ==
    IF reqs[r].hasUser
    THEN /\ usage_records' = Recording(r, success).usage_records
         /\ cache' = Recording(r, success).store.cache
         /\ expiry' = Recording(r, success).store.expiry
    ELSE UNCHANGED <<usage_records, cache, expiry>>

\* how a call ends that was to end as o after its record_request call: an
\* exception leaving record_request takes the place of o
Recorded(r, success, o) ==
    IF reqs[r].hasUser /\ Recording(r, success).raised
    THEN [kind |-> "raised", error |-> "usage"]
    ELSE o

\* faulty generator: the understanding and the searching marker have
\* changed places
YieldedSwapped(r, loc) ==
    CASE loc = "y_analyzing" -> [kind |-> "analyzing", n |-> 0]
      [] loc = "y_understanding" -> [kind |-> "searching", n |-> 0]
      [] loc = "y_searching" -> [kind |-> "understanding", n |-> 0]
      [] loc = "y_nocourses" -> [kind |-> "no_courses", n |-> 0]
      [] loc = "y_found" -> [kind |-> "found", n |-> 0]
      [] loc = "y_chunk" -> [kind |-> "chunk", n |-> sent[r] + 1]
      [] loc = "y_stream_error" -> [kind |-> "chunk_error", n |-> 0]
      [] loc = "y_error" -> [kind |-> "error", n |-> 0]

\* what the generator of stream_recommendations yields when it suspends at
\* the yield loc: a progress marker, a message, or chunk n of the provider
Yielded(r, loc) ==
    CASE loc = "y_analyzing" -> [kind |-> "analyzing", n |-> 0]
      [] loc = "y_understanding" -> [kind |-> "understanding", n |-> 0]
      [] loc = "y_searching" -> [kind |-> "searching", n |-> 0]
      [] loc = "y_nocourses" -> [kind |-> "no_courses", n |-> 0]
      [] loc = "y_found" -> [kind |-> "found", n |-> 0]
      [] loc = "y_chunk" -> [kind |-> "chunk", n |-> sent[r] + 1]
      [] loc = "y_stream_error" -> [kind |-> "chunk_error", n |-> 0]
      [] loc = "y_error" -> [kind |-> "error", n |-> 0]

Goto(r, loc) ==
    /\ pc' = [pc EXCEPT ![r] = loc]
    /\ emitted' = IF loc \in {"y_analyzing", "y_understanding", "y_searching",
                               "y_nocourses", "y_found", "y_chunk", "y_stream_error",
                               "y_error"}
                  THEN [emitted EXCEPT ![r] = Append(@, Yielded(r, loc))]
                  ELSE emitted

Ends(r, o) == outcome' = [outcome EXCEPT ![r] = o]

\* the success tail of get_recommendations: usage record, then the response
ReturnResponse(r, explanations) ==
    /\ RecordUsage(r, TRUE)
    /\ Ends(r, Recorded(r, TRUE,
                        [kind |-> "returned", recommendations |-> Recommended(r),
                         explanations |-> explanations,
                         total_courses_searched |-> Similar(r),
                         search_explanation |-> "Found relevant courses"]))
    /\ Goto(r, "done")

\* the stage failed inside the try block: get_recommendations records the
\* failure and re-raises, stream_recommendations yields the error chunk
StageFailed(r) ==
    IF reqs[r].kind = "get"
    THEN /\ RecordUsage(r, FALSE)
         /\ Ends(r, Recorded(r, FALSE, [kind |-> "raised"]))
         /\ Goto(r, "done")
    ELSE /\ Goto(r, "y_error")
         /\ UNCHANGED <<usage_records, cache, expiry, outcome>>

\* the generator of stream_recommendations finishes
StreamEnds(r, success) ==
    /\ RecordUsage(r, success)
    /\ Ends(r, Recorded(r, success, [kind |-> "ended", after |-> pc[r]]))
    /\ Goto(r, "done")

\* the caller invokes get_recommendations, or asks the generator of
\* stream_recommendations for its first chunk
Start(r) ==
    /\ pc[r] = "idle"
    /\ LET S1 == MemGet(Store, now)
       IN  IF reqs[r].kind = "get"
           THEN /\ Goto(r, DescEntry(r, S1))
                /\ cache' = S1.cache
                /\ expiry' = S1.expiry
           ELSE /\ Goto(r, "y_analyzing")
                /\ UNCHANGED <<cache, expiry>>
    /\ UNCHANGED <<now, settings, user, last, rlCalls, recCalls, sinceReset, written, redis>>
    /\ UNCHANGED <<locals, failed, reqs, corpus, expl, sent, orphan, outcome, api_semaphore,
                   embedding_lock, usage_records>>

\* `async with self.api_semaphore` obtains a slot
AcquireSlot(r) ==
    /\ pc[r] \in {"desc_wait", "text_wait", "expl_wait", "stream_wait"}
    /\ api_semaphore > 0
    /\ api_semaphore' = api_semaphore - 1
    /\ Goto(r, CASE pc[r] = "desc_wait" -> "desc_call"
                 [] pc[r] = "text_wait" -> "text_call"
                 [] pc[r] = "expl_wait" -> "expl_call"
                 [] pc[r] = "stream_wait" -> "stream_call")
    /\ UNCHANGED <<quotaVars, locals, failed, reqs, corpus, expl, sent, orphan, outcome,
                   embedding_lock, usage_records>>

\* `async with self._embedding_lock` obtains the lock
AcquireEmbeddingLock(r) ==
    /\ pc[r] = "embed_wait"
    /\ embedding_lock = 0
    /\ embedding_lock' = r
    /\ Goto(r, "embed_call")
    /\ UNCHANGED <<quotaVars, locals, failed, reqs, corpus, expl, sent, orphan, outcome,
                   api_semaphore, usage_records>>

\* the chat completion of generate_course_description returns
DescOk(r) ==
    /\ pc[r] = "desc_call"
    /\ api_semaphore' = api_semaphore + 1
    /\ LET S1 == MemSet(Store, now, DescriptionKey(Query), Description, DescriptionTTL)
           S2 == IF reqs[r].kind = "get" THEN MemGet(S1, now) ELSE S1
       IN  /\ cache' = S2.cache
           /\ expiry' = S2.expiry
           /\ Goto(r, IF reqs[r].kind = "get" THEN EmbedEntry(r, S2)
                      ELSE "y_understanding")
    /\ UNCHANGED <<now, settings, user, last, rlCalls, recCalls, sinceReset, written, redis>>
    /\ UNCHANGED <<locals, failed, reqs, corpus, expl, sent, orphan, outcome, embedding_lock,
                   usage_records>>

\* the chat completion of generate_course_description fails
DescFail(r) ==
    /\ pc[r] = "desc_call"
    /\ failed' = [failed EXCEPT ![r] = "description"]
    /\ api_semaphore' = api_semaphore + 1
    /\ StageFailed(r)
    /\ UNCHANGED <<now, settings, user, last, rlCalls, recCalls, sinceReset, written, redis>>
    /\ UNCHANGED <<locals, reqs, corpus, expl, sent, orphan, embedding_lock>>

\* the embeddings call of VectorService.generate_embedding returns a
\* vector, which is bound to the local `embedding`.  Building the argument
\* expire=timedelta(hours=24) of the cache write raises NameError before
\* cache_service.set is called; the lock is released, the except clause
\* logs and re-raises, and the stage has failed for the caller
EmbedOk(r) ==
    /\ pc[r] = "embed_call"
    /\ locals' = [locals EXCEPT ![r] = <<Embedding>>]
    /\ failed' = [failed EXCEPT ![r] = "embedding"]
    /\ embedding_lock' = 0
    /\ StageFailed(r)
    /\ UNCHANGED <<now, settings, user, last, rlCalls, recCalls, sinceReset, written, redis>>
    /\ UNCHANGED <<reqs, corpus, expl, sent, orphan, api_semaphore>>

\* the embeddings call fails
EmbedFail(r) ==
    /\ pc[r] = "embed_call"
    /\ failed' = [failed EXCEPT ![r] = "embedding"]
    /\ embedding_lock' = 0
    /\ StageFailed(r)
    /\ UNCHANGED <<now, settings, user, last, rlCalls, recCalls, sinceReset, written, redis>>
    /\ UNCHANGED <<locals, reqs, corpus, expl, sent, orphan, api_semaphore>>

\* search_similar_courses and the `if not similar_courses` branch
Search(r) ==
    /\ pc[r] = "search"
    /\ failed' = [failed EXCEPT ![r] = IF corpus.broken THEN "retrieval" ELSE @]
    /\ IF reqs[r].kind = "get"
       THEN IF Similar(r) = 0
            THEN /\ Ends(r, [kind |-> "returned", recommendations |-> 0,
                             explanations |-> <<>>,
                             total_courses_searched |-> 0,
                             search_explanation |-> "No courses found"])
                 /\ Goto(r, "done")
            ELSE /\ Goto(r, "text_wait")
                 /\ UNCHANGED outcome
       ELSE /\ Goto(r, IF Similar(r) = 0 THEN "y_nocourses" ELSE "y_found")
            /\ UNCHANGED outcome
    /\ UNCHANGED <<quotaVars, locals, reqs, corpus, expl, sent, orphan, api_semaphore,
                   embedding_lock, usage_records>>

\* the chat completion of generate_recommendations_text returns
TextOk(r) ==
    /\ pc[r] = "text_call"
    /\ api_semaphore' = api_semaphore + 1
    /\ IF reqs[r].include_explanations
       THEN /\ Goto(r, "expl_wait")
            /\ UNCHANGED <<usage_records, cache, expiry, outcome>>
       ELSE ReturnResponse(r, <<>>)
    /\ UNCHANGED <<now, settings, user, last, rlCalls, recCalls, sinceReset, written, redis>>
    /\ UNCHANGED <<locals, failed, reqs, corpus, expl, sent, orphan, embedding_lock>>

\* faulty exit: the failed chat completion keeps its slot
TextFailKeepsSlot(r) ==
    /\ pc[r] = "text_call"
    /\ failed' = [failed EXCEPT ![r] = "text"]
    /\ UNCHANGED api_semaphore
    /\ StageFailed(r)
    /\ UNCHANGED <<now, settings, user, last, rlCalls, recCalls, sinceReset, written, redis>>
    /\ UNCHANGED <<locals, reqs, corpus, expl, sent, orphan, embedding_lock>>

\* the chat completion of generate_recommendations_text fails
TextFail(r) ==
    /\ pc[r] = "text_call"
    /\ failed' = [failed EXCEPT ![r] = "text"]
    /\ api_semaphore' = api_semaphore + 1
    /\ StageFailed(r)
    /\ UNCHANGED <<now, settings, user, last, rlCalls, recCalls, sinceReset, written, redis>>
    /\ UNCHANGED <<locals, reqs, corpus, expl, sent, orphan, embedding_lock>>

\* faulty handler: explain_recommendation lets the provider error escape
ExplFailedRaises(r) ==
    /\ StageFailed(r)
    /\ UNCHANGED expl

\* explain_recommendation catches the provider error and returns the
\* fallback string, which becomes the match's relevance_explanation
ExplFailedFallback(r) ==
    /\ expl' = [expl EXCEPT ![r] = Append(@, "fallback")]
    /\ IF Len(expl[r]) + 1 < Recommended(r)
       THEN /\ Goto(r, "expl_wait")
            /\ UNCHANGED <<usage_records, cache, expiry, outcome>>
       ELSE ReturnResponse(r, expl'[r])

\* the chat completion of explain_recommendation returns
ExplOk(r) ==
    /\ pc[r] = "expl_call"
    /\ api_semaphore' = api_semaphore + 1
    /\ expl' = [expl EXCEPT ![r] = Append(@, "text")]
    /\ IF Len(expl[r]) + 1 < Recommended(r)
       THEN /\ Goto(r, "expl_wait")
            /\ UNCHANGED <<usage_records, cache, expiry, outcome>>
       ELSE ReturnResponse(r, expl'[r])
    /\ UNCHANGED <<now, settings, user, last, rlCalls, recCalls, sinceReset, written, redis>>
    /\ UNCHANGED <<locals, failed, reqs, corpus, sent, orphan, embedding_lock>>

\* the chat completion of explain_recommendation fails
ExplFail(r) ==
    /\ pc[r] = "expl_call"
    /\ failed' = [failed EXCEPT ![r] = "explanation"]
    /\ api_semaphore' = api_semaphore + 1
    /\ ExplFailedFallback(r)
    /\ UNCHANGED <<now, settings, user, last, rlCalls, recCalls, sinceReset, written, redis>>
    /\ UNCHANGED <<locals, reqs, corpus, sent, orphan, embedding_lock>>

\* the points at which the generator of stream_recommendations is
\* suspended in a yield
Yields == {"y_analyzing", "y_understanding", "y_searching", "y_nocourses",
           "y_found", "y_chunk", "y_stream_error", "y_error"}

\* the consumer asks for the next chunk after the analyzing marker
ResumeDescription(r) ==
    /\ pc[r] = "y_analyzing"
    /\ LET S1 == MemGet(Store, now)
       IN  /\ Goto(r, DescEntry(r, S1))
           /\ cache' = S1.cache
           /\ expiry' = S1.expiry
    /\ UNCHANGED <<now, settings, user, last, rlCalls, recCalls, sinceReset, written, redis>>
    /\ UNCHANGED <<locals, failed, reqs, corpus, expl, sent, orphan, outcome, api_semaphore,
                   embedding_lock, usage_records>>

\* the consumer asks for the next chunk after the understanding marker
ResumeEmbedding(r) ==
    /\ pc[r] = "y_understanding"
    /\ LET S1 == MemGet(Store, now)
       IN  /\ Goto(r, EmbedEntry(r, S1))
           /\ cache' = S1.cache
           /\ expiry' = S1.expiry
    /\ UNCHANGED <<now, settings, user, last, rlCalls, recCalls, sinceReset, written, redis>>
    /\ UNCHANGED <<locals, failed, reqs, corpus, expl, sent, orphan, outcome, api_semaphore,
                   embedding_lock, usage_records>>

\* the consumer asks for the next chunk after a marker that is followed by
\* work without a cache read
Resume(r) ==
    /\ pc[r] \in {"y_searching", "y_found", "y_chunk"}
    /\ Goto(r, CASE pc[r] = "y_searching" -> "search"
                 [] pc[r] = "y_found" -> "stream_wait"
                 [] pc[r] = "y_chunk" -> "stream_call")
    /\ UNCHANGED <<quotaVars, locals, failed, reqs, corpus, expl, sent, orphan, outcome,
                   api_semaphore, embedding_lock, usage_records>>

\* faulty branch: the generator goes on to the provider stream after the
\* no-courses message
ResumeNoCoursesContinues(r) ==
    /\ pc[r] = "y_nocourses"
    /\ Goto(r, "stream_wait")
    /\ UNCHANGED <<quotaVars, locals, failed, reqs, corpus, expl, sent, orphan, outcome,
                   api_semaphore, embedding_lock, usage_records>>

\* the consumer asks for the next chunk after the no-courses message: the
\* generator returns
ResumeNoCourses(r) ==
    /\ pc[r] = "y_nocourses"
    /\ Ends(r, [kind |-> "ended", after |-> pc[r]])
    /\ Goto(r, "done")
    /\ UNCHANGED <<quotaVars, locals, failed, reqs, corpus, expl, sent, orphan, api_semaphore,
                   embedding_lock, usage_records>>

\* the consumer asks for the next chunk after the error text that
\* stream_recommendations_text yielded: the provider stream is over and
\* stream_recommendations records a success
ResumeStreamError(r) ==
    /\ pc[r] = "y_stream_error"
    /\ StreamEnds(r, TRUE)
    /\ UNCHANGED <<now, settings, user, last, rlCalls, recCalls, sinceReset, written, redis>>
    /\ UNCHANGED <<locals, failed, reqs, corpus, expl, sent, orphan, api_semaphore, embedding_lock>>

\* faulty tail: the except block raises the error again after its chunk
ResumeErrorRaises(r) ==
    /\ pc[r] = "y_error"
    /\ RecordUsage(r, FALSE)
    /\ Ends(r, [kind |-> "raised"])
    /\ Goto(r, "done")
    /\ UNCHANGED <<now, settings, user, last, rlCalls, recCalls, sinceReset, written, redis>>
    /\ UNCHANGED <<locals, failed, reqs, corpus, expl, sent, orphan, api_semaphore, embedding_lock>>

\* the consumer asks for the next chunk after the error chunk of the
\* except block: the failure is recorded and the generator ends
ResumeError(r) ==
    /\ pc[r] = "y_error"
    /\ StreamEnds(r, FALSE)
    /\ UNCHANGED <<now, settings, user, last, rlCalls, recCalls, sinceReset, written, redis>>
    /\ UNCHANGED <<locals, failed, reqs, corpus, expl, sent, orphan, api_semaphore, embedding_lock>>

\* the provider stream delivers a chunk, which is yielded to the consumer
StreamChunk(r) ==
    /\ pc[r] = "stream_call"
    /\ sent[r] < MaxChunks
    /\ sent' = [sent EXCEPT ![r] = @ + 1]
    /\ Goto(r, "y_chunk")
    /\ UNCHANGED <<quotaVars, locals, failed, reqs, corpus, expl, orphan, outcome, api_semaphore,
                   embedding_lock, usage_records>>

\* the provider stream ends: the slot is released and the success recorded
StreamEnd(r) ==
    /\ pc[r] = "stream_call"
    /\ api_semaphore' = api_semaphore + 1
    /\ StreamEnds(r, TRUE)
    /\ UNCHANGED <<now, settings, user, last, rlCalls, recCalls, sinceReset, written, redis>>
    /\ UNCHANGED <<locals, failed, reqs, corpus, expl, sent, orphan, embedding_lock>>

\* the streaming provider call fails: stream_recommendations_text releases
\* the slot and yields the error as a chunk
StreamFail(r) ==
    /\ pc[r] = "stream_call"
    /\ api_semaphore' = api_semaphore + 1
    /\ Goto(r, "y_stream_error")
    /\ UNCHANGED <<quotaVars, locals, failed, reqs, corpus, expl, sent, orphan, outcome,
                   embedding_lock, usage_records>>

\* the consumer closes the generator while it is suspended in a yield:
\* GeneratorExit is no Exception, the except block does not run.  Closed
\* inside the provider loop, the generator of stream_recommendations_text
\* is left suspended with its slot
Close(r) ==
    /\ pc[r] \in Yields
    /\ Ends(r, [kind |-> "closed", at |-> pc[r]])
    /\ Goto(r, "done")
    /\ orphan' = IF pc[r] = "y_chunk" THEN orphan \cup {r} ELSE orphan
    /\ UNCHANGED <<quotaVars, locals, failed, reqs, corpus, expl, sent, api_semaphore,
                   embedding_lock, usage_records>>

\* the awaits of a streaming call at which the task of its consumer can be
\* cancelled
Awaits == {"desc_wait", "desc_call", "embed_wait", "embed_call", "stream_wait",
           "stream_call"}

\* the task consuming the stream is cancelled while the call is suspended in
\* an await: CancelledError is no Exception, it leaves every `async with`
\* and passes the except blocks
Cancel(r) ==
    /\ reqs[r].kind = "stream"
    /\ pc[r] \in Awaits
    /\ api_semaphore' = IF pc[r] \in {"desc_call", "stream_call"}
                        THEN api_semaphore + 1 ELSE api_semaphore
    /\ embedding_lock' = IF pc[r] = "embed_call" THEN 0 ELSE embedding_lock
    /\ Ends(r, [kind |-> "cancelled", at |-> pc[r]])
    /\ Goto(r, "done")
    /\ UNCHANGED <<quotaVars, locals, failed, reqs, corpus, expl, sent, orphan, usage_records>>

\* faulty finalizer: the abandoned generator is dropped with its slot
FinalizeOrphanKeepsSlot(r) ==
    /\ r \in orphan
    /\ orphan' = orphan \ {r}
    /\ UNCHANGED <<quotaVars, locals, failed, reqs, corpus, pc, emitted, expl, sent, outcome,
                   api_semaphore, embedding_lock, usage_records>>

\* the abandoned generator of stream_recommendations_text is finalized and
\* leaves its `async with`
FinalizeOrphan(r) ==
    /\ r \in orphan
    /\ orphan' = orphan \ {r}
    /\ api_semaphore' = api_semaphore + 1
    /\ UNCHANGED <<quotaVars, locals, failed, reqs, corpus, pc, emitted, expl, sent, outcome,
                   embedding_lock, usage_records>>

\* provider calls in flight: issued and neither returned nor failed
InFlight ==
    {r \in Calls : pc[r] \in {"desc_call", "embed_call", "text_call", "expl_call",
                              "stream_call", "y_chunk"}} \cup orphan

EmptyStore == [cache |-> <<>>, expiry |-> <<>>]

\* the store is shared and outlives the service objects: the embedding of
\* the description may be in it when the calls start
EmbeddingStored ==
    MemSet(EmptyStore, 0, EmbeddingKey(Description), Embedding, EmbeddingTTL)

\* n calls with the given inputs, none started; the store is empty or holds
\* the embedding
CallsInit(inputs) ==
    /\ now = 0
    /\ settings = "development"
    /\ user = [id |-> "guest", role |-> "guest", department |-> NoDepartment]
    /\ \E stored \in BOOLEAN :
          LET S == IF stored THEN EmbeddingStored ELSE EmptyStore
          IN  cache = S.cache /\ expiry = S.expiry
    /\ last = [op |-> "none"]
    /\ rlCalls = [bucket |-> 0, n |-> 0, prevFull |-> FALSE]
    /\ recCalls = [day |-> 0, n |-> 0]
    /\ sinceReset = "no"
    /\ written = <<>>
    /\ redis = "up"
    /\ ServicesInit
    /\ reqs = inputs
    /\ pc = [r \in DOMAIN inputs |-> "idle"]
    /\ expl = [r \in DOMAIN inputs |-> <<>>]
    /\ sent = [r \in DOMAIN inputs |-> 0]
    /\ emitted = [r \in DOMAIN inputs |-> <<>>]
    /\ orphan = {}
    /\ outcome = [r \in DOMAIN inputs |-> [kind |-> "none"]]
    /\ failed = [r \in DOMAIN inputs |-> "none"]
    /\ locals = [r \in DOMAIN inputs |-> <<>>]

\* a total order on the inputs; calls are interchangeable, so the calls of
\* an initial state are numbered in this order
InputRank(i) ==
    (((IF i.kind = "get" THEN 0 ELSE 1) * 2 + (IF i.hasUser THEN 1 ELSE 0)) * 2
        + (IF i.include_explanations THEN 1 ELSE 0)) * (MaxResults + 1) + i.max_results

InitPipe ==
    /\ corpus \in CorpusStates
    /\ \E inputs \in [1..MaxRequests -> RequestInputs] :
          /\ \A i, j \in 1..MaxRequests :
                i < j => InputRank(inputs[i]) <= InputRank(inputs[j])
          /\ CallsInit(inputs)

NextPipe ==
    \/ \E r \in Calls : Start(r)
    \/ \E r \in Calls : AcquireSlot(r)
    \/ \E r \in Calls : AcquireEmbeddingLock(r)
    \/ \E r \in Calls : DescOk(r)
    \/ \E r \in Calls : DescFail(r)
    \/ \E r \in Calls : EmbedOk(r)
    \/ \E r \in Calls : EmbedFail(r)
    \/ \E r \in Calls : Search(r)
    \/ \E r \in Calls : TextOk(r)
    \/ \E r \in Calls : TextFail(r)
    \/ \E r \in Calls : ExplOk(r)
    \/ \E r \in Calls : ExplFail(r)
    \/ \E r \in Calls : ResumeDescription(r)
    \/ \E r \in Calls : ResumeEmbedding(r)
    \/ \E r \in Calls : Resume(r)
    \/ \E r \in Calls : ResumeNoCourses(r)
    \/ \E r \in Calls : ResumeStreamError(r)
    \/ \E r \in Calls : ResumeError(r)
    \/ \E r \in Calls : StreamChunk(r)
    \/ \E r \in Calls : StreamEnd(r)
    \/ \E r \in Calls : StreamFail(r)
    \/ \E r \in Calls : Close(r)
    \/ \E r \in Calls : Cancel(r)
    \/ \E r \in Calls : FinalizeOrphan(r)

SpecPipe == InitPipe /\ [][NextPipe]_vars

\* one call on its own, of any kind and with any inputs
InitCall ==
    /\ corpus \in CorpusStates
    /\ \E i \in RequestInputs : CallsInit(<<i>>)

SpecCall == InitCall /\ [][NextPipe]_vars

\* the event loop runs the finalizer of an abandoned generator
SpecCallFair == SpecCall /\ WF_vars(\E r \in Calls : FinalizeOrphan(r))

\* a step of call r other than its consumer closing or cancelling it
Runs(r) ==
    \/ Start(r)
    \/ AcquireSlot(r)
    \/ AcquireEmbeddingLock(r)
    \/ DescOk(r)
    \/ DescFail(r)
    \/ EmbedOk(r)
    \/ EmbedFail(r)
    \/ Search(r)
    \/ TextOk(r)
    \/ TextFail(r)
    \/ ExplOk(r)
    \/ ExplFail(r)
    \/ ResumeDescription(r)
    \/ ResumeEmbedding(r)
    \/ Resume(r)
    \/ ResumeNoCourses(r)
    \/ ResumeStreamError(r)
    \/ ResumeError(r)
    \/ StreamChunk(r)
    \/ StreamEnd(r)
    \/ StreamFail(r)

\* the consumer keeps asking for the next chunk and the provider answers
\* every call, with a stream of at most MaxChunks chunks
SpecStreamFair == SpecCall /\ WF_vars(\E r \in Calls : Runs(r))

\* blocking calls without explanations, as many as MaxLoad
InitLoad ==
    /\ corpus = [eligible |-> 1, broken |-> FALSE]
    /\ CallsInit([r \in 1..MaxLoad |->
                    [kind |-> "get", hasUser |-> FALSE, max_results |-> 1,
                     include_explanations |-> FALSE, ledger |-> "working"]])

\* the provider answers every call
NextLoad ==
    \/ \E r \in Calls : Start(r)
    \/ \E r \in Calls : AcquireSlot(r)
    \/ \E r \in Calls : AcquireEmbeddingLock(r)
    \/ \E r \in Calls : DescOk(r)
    \/ \E r \in Calls : EmbedOk(r)
    \/ \E r \in Calls : Search(r)
    \/ \E r \in Calls : TextOk(r)

SpecLoad == InitLoad /\ [][NextLoad]_vars

\* the ways the usage ledger fails inside record_request
LedgerFaults == {"record", "cache"}

\* two get_recommendations calls of one requester with the same request:
\* the ledger works for call 1 and fails for call 2
InitLedger ==
    /\ corpus \in CorpusStates
    /\ \E i \in RequestInputs, fault \in LedgerFaults :
          /\ i.kind = "get"
          /\ i.hasUser
          /\ CallsInit(<<i, [i EXCEPT !.ledger = fault]>>)

\* the steps of get_recommendations calls
NextLedger ==
    \/ \E r \in Calls : Start(r)
    \/ \E r \in Calls : AcquireSlot(r)
    \/ \E r \in Calls : AcquireEmbeddingLock(r)
    \/ \E r \in Calls : DescOk(r)
    \/ \E r \in Calls : DescFail(r)
    \/ \E r \in Calls : EmbedOk(r)
    \/ \E r \in Calls : EmbedFail(r)
    \/ \E r \in Calls : Search(r)
    \/ \E r \in Calls : TextOk(r)
    \/ \E r \in Calls : TextFail(r)
    \/ \E r \in Calls : ExplOk(r)
    \/ \E r \in Calls : ExplFail(r)

SpecLedger == InitLedger /\ [][NextLedger]_vars

\* blocking calls, one more than the slots, the first of them with
\* explanations; the store holds the description of the query and its
\* embedding, so every call goes to the chat completion of
\* generate_recommendations_text
InitSlots ==
    /\ corpus = [eligible |-> 1, broken |-> FALSE]
    /\ now = 0
    /\ settings = "development"
    /\ user = [id |-> "guest", role |-> "guest", department |-> NoDepartment]
    /\ LET S == MemSet(EmbeddingStored, 0, DescriptionKey(Query), Description,
                       DescriptionTTL)
       IN  cache = S.cache /\ expiry = S.expiry
    /\ last = [op |-> "none"]
    /\ rlCalls = [bucket |-> 0, n |-> 0, prevFull |-> FALSE]
    /\ recCalls = [day |-> 0, n |-> 0]
    /\ sinceReset = "no"
    /\ written = <<>>
    /\ redis = "up"
    /\ ServicesInit
    /\ reqs = [r \in 1..MaxLoad |->
                 [kind |-> "get", hasUser |-> FALSE, max_results |-> 1,
                  include_explanations |-> (r = 1), ledger |-> "working"]]
    /\ pc = [r \in 1..MaxLoad |-> "idle"]
    /\ expl = [r \in 1..MaxLoad |-> <<>>]
    /\ sent = [r \in 1..MaxLoad |-> 0]
    /\ emitted = [r \in 1..MaxLoad |-> <<>>]
    /\ orphan = {}
    /\ outcome = [r \in 1..MaxLoad |-> [kind |-> "none"]]
    /\ failed = [r \in 1..MaxLoad |-> "none"]
    /\ locals = [r \in 1..MaxLoad |-> <<>>]

\* the provider answers the chat completion call r is in, or fails it
ProviderAnswers(r) ==
    \/ TextOk(r)
    \/ TextFail(r)
    \/ ExplOk(r)
    \/ ExplFail(r)

NextSlots ==
    \/ \E r \in Calls : Start(r)
    \/ \E r \in Calls : AcquireSlot(r)
    \/ \E r \in Calls : Search(r)
    \/ \E r \in Calls : ProviderAnswers(r)

SpecSlots == InitSlots /\ [][NextSlots]_vars

\* the event loop keeps running: a provider call that is in flight returns
\* or fails, and a waiter is woken when a slot is free
SpecSlotsFair ==
    /\ SpecSlots
    /\ WF_vars(\E r \in Calls : ProviderAnswers(r))
    /\ WF_vars(\E r \in Calls : AcquireSlot(r))

(***************************************************************************)
(* Concurrent check_rate_limit calls of one requester.  The cache service   *)
(* wired in is RedisCacheService, whose get, increment and set each await   *)
(* the store: a call can be suspended before each of them; the store        *)
(* applies each operation atomically.                                       *)
(***************************************************************************)
\* coroutines that run check_rate_limit concurrently, each call after call
MaxWorkers == 2

\* rlCalls counts the calls started and the calls accepted in the bucket
InitRace ==
    /\ now = 0
    /\ settings = "development"
    /\ user \in Users
    /\ cache = <<>>
    /\ expiry = <<>>
    /\ last = [op |-> "none"]
    /\ rlCalls = [bucket |-> 0, n |-> 0, prevFull |-> FALSE, accepted |-> 0]
    /\ recCalls = [day |-> 0, n |-> 0]
    /\ sinceReset = "no"
    /\ written = <<>>
    /\ redis = "up"
    /\ ServicesInit
    /\ reqs = [r \in 1..MaxWorkers |-> [kind |-> "check_rate_limit"]]
    /\ corpus = [eligible |-> 0, broken |-> FALSE]
    /\ pc = [r \in 1..MaxWorkers |-> "idle"]
    /\ expl = [r \in 1..MaxWorkers |-> <<>>]
    /\ sent = [r \in 1..MaxWorkers |-> 0]
    /\ emitted = [r \in 1..MaxWorkers |-> <<>>]
    /\ orphan = {}
    /\ outcome = [r \in 1..MaxWorkers |-> [kind |-> "none"]]
    /\ failed = [r \in 1..MaxWorkers |-> "none"]
    /\ locals = [r \in 1..MaxWorkers |-> <<>>]

\* a call starts: now, the key, `await cache.get(key) or 0`, the limit and
\* the test
RateRead(r) ==
    /\ pc[r] \in {"idle", "done"}
    /\ rlCalls.n < MaxRateCalls
    /\ LET key == RateLimitKey(user, now)
           S1 == MemGet(Store, now)
           current_count == GetOr(S1, key, 0)
           rate_limit == get_rate_limit_for_user(user)
       IN  /\ cache' = S1.cache
           /\ expiry' = S1.expiry
           /\ locals' = [locals EXCEPT ![r] =
                            [key |-> key, current_count |-> current_count,
                             rate_limit |-> rate_limit, now |-> now]]
           /\ rlCalls' = [rlCalls EXCEPT !.n = @ + 1]
           /\ IF LimitReached(current_count, rate_limit)
              THEN /\ Ends(r, [kind |-> "returned",
                               result |-> RateDecision(current_count, rate_limit, now)])
                   /\ Goto(r, "done")
              ELSE /\ Ends(r, [kind |-> "none"])
                   /\ Goto(r, "rl_increment")
    /\ UNCHANGED <<now, settings, user, last, recCalls, sinceReset, written, redis>>
    /\ UNCHANGED <<reqs, corpus, expl, sent, orphan, failed, api_semaphore,
                   embedding_lock, usage_records>>

\* `await self.cache_service.increment(rate_limit_key)`
RateIncrement(r) ==
    /\ pc[r] = "rl_increment"
    /\ LET S1 == MemIncrement(Store, now, locals[r].key, 1)
       IN  /\ cache' = S1.cache
           /\ expiry' = S1.expiry
    /\ Goto(r, "rl_set")
    /\ UNCHANGED <<now, settings, user, last, rlCalls, recCalls, sinceReset, written, redis>>
    /\ UNCHANGED <<reqs, corpus, expl, sent, orphan, outcome, failed, locals,
                   api_semaphore, embedding_lock, usage_records>>

\* `await self.cache_service.set(key, current_count + 1, expire=1 minute)`
\* and the positive decision
RateSet(r) ==
    /\ pc[r] = "rl_set"
    /\ LET S1 == MemSet(Store, now, locals[r].key, locals[r].current_count + 1,
                        SecondsPerMinute)
       IN  /\ cache' = S1.cache
           /\ expiry' = S1.expiry
    /\ Ends(r, [kind |-> "returned",
                result |-> RateDecision(locals[r].current_count, locals[r].rate_limit,
                                        locals[r].now)])
    /\ Goto(r, "done")
    /\ rlCalls' = [rlCalls EXCEPT !.accepted = @ + 1]
    /\ UNCHANGED <<now, settings, user, last, recCalls, sinceReset, written, redis>>
    /\ UNCHANGED <<reqs, corpus, expl, sent, orphan, failed, locals,
                   api_semaphore, embedding_lock, usage_records>>

NextRace ==
    \/ \E r \in Calls : RateRead(r)
    \/ \E r \in Calls : RateIncrement(r)
    \/ \E r \in Calls : RateSet(r)

SpecRace == InitRace /\ [][NextRace]_vars

(***************************************************************************)
(* Concurrent record_request calls of one requester, and check_quota       *)
(* reading the counter between their cache operations.                      *)
(***************************************************************************)
InitRecord ==
    /\ now = 0
    /\ settings = "development"
    /\ user \in Users
    /\ cache = <<>>
    /\ expiry = <<>>
    /\ last = [op |-> "none"]
    /\ rlCalls = [bucket |-> 0, n |-> 0, prevFull |-> FALSE]
    /\ recCalls = [day |-> 0, n |-> 0]
    /\ sinceReset = "no"
    /\ written = <<>>
    /\ redis = "up"
    /\ ServicesInit
    /\ reqs = [r \in 1..MaxWorkers |-> [kind |-> "record_request"]]
    /\ corpus = [eligible |-> 0, broken |-> FALSE]
    /\ pc = [r \in 1..MaxWorkers |-> "idle"]
    /\ expl = [r \in 1..MaxWorkers |-> <<>>]
    /\ sent = [r \in 1..MaxWorkers |-> 0]
    /\ emitted = [r \in 1..MaxWorkers |-> <<>>]
    /\ orphan = {}
    /\ outcome = [r \in 1..MaxWorkers |-> [kind |-> "none"]]
    /\ failed = [r \in 1..MaxWorkers |-> "none"]
    /\ locals = [r \in 1..MaxWorkers |-> <<>>]

\* record_request up to `await self.cache_service.increment(daily_usage_key)`
RecordIncrement(r) ==
    /\ pc[r] \in {"idle", "done"}
    /\ recCalls.n < MaxUsage
    /\ LET today == DateOf(now)
           daily_usage_key == DailyUsageKey(user.id, now)
           S1 == MemIncrement(Store, now, daily_usage_key, 1)
       IN  /\ cache' = S1.cache
           /\ expiry' = S1.expiry
           /\ locals' = [locals EXCEPT ![r] =
                            [daily_usage_key |-> daily_usage_key, today |-> today,
                             current_count |-> 0]]
    /\ recCalls' = [recCalls EXCEPT !.n = @ + 1]
    /\ Ends(r, [kind |-> "none"])
    /\ Goto(r, "rr_get")
    /\ UNCHANGED <<now, settings, user, last, rlCalls, sinceReset, written, redis>>
    /\ UNCHANGED <<reqs, corpus, expl, sent, orphan, failed, api_semaphore,
                   embedding_lock, usage_records>>

\* `current_count = await self.cache_service.get(daily_usage_key) or 1`
RecordGet(r) ==
    /\ pc[r] = "rr_get"
    /\ LET S1 == MemGet(Store, now)
       IN  /\ cache' = S1.cache
           /\ expiry' = S1.expiry
           /\ locals' = [locals EXCEPT ![r].current_count =
                            GetOr(S1, locals[r].daily_usage_key, 1)]
    /\ Goto(r, "rr_set")
    /\ UNCHANGED <<now, settings, user, last, rlCalls, recCalls, sinceReset, written, redis>>
    /\ UNCHANGED <<reqs, corpus, expl, sent, orphan, outcome, failed,
                   api_semaphore, embedding_lock, usage_records>>

\* `await self.cache_service.set(daily_usage_key, current_count,
\* expire=expire_delta)` and `return True`
RecordSet(r) ==
    /\ pc[r] = "rr_set"
    /\ LET expire_delta == StartOfDay(locals[r].today + 2) - now
           S1 == MemSet(Store, now, locals[r].daily_usage_key,
                        locals[r].current_count, expire_delta)
       IN  /\ cache' = S1.cache
           /\ expiry' = S1.expiry
    /\ Ends(r, [kind |-> "returned", result |-> TRUE])
    /\ Goto(r, "done")
    /\ UNCHANGED <<now, settings, user, last, rlCalls, recCalls, sinceReset, written, redis>>
    /\ UNCHANGED <<reqs, corpus, expl, sent, orphan, failed, locals,
                   api_semaphore, embedding_lock, usage_records>>

NextRecord ==
    \/ \E r \in Calls : RecordIncrement(r)
    \/ \E r \in Calls : RecordGet(r)
    \/ \E r \in Calls : RecordSet(r)
    \/ CheckQuota

SpecRecord == InitRecord /\ [][NextRecord]_vars

(***************************************************************************)
(* VectorService.search_similar_courses in detail, and what                 *)
(* get_recommendations makes of its result.  A similarity is the cosine of  *)
(* the course against the query, in tenths; the corpus frame has the        *)
(* columns level and is_active.                                             *)
(***************************************************************************)
\* courses in the corpus frame
MaxCourses == 4
\* limit values passed to search_similar_courses
MaxLimit == 5

\* `if similarities[idx] > 0.5`, in tenths
Threshold == 5

Scores == {5, 6, 7}

\* an active course of level 100 and a retired course of level 200
CourseKinds ==
    { [level |-> 100, is_active |-> TRUE],
      [level |-> 200, is_active |-> FALSE] }

\* _courses_data: rows in load order, the row number is the course id
Corpora ==
    UNION { [1..n -> [level : {100, 200}, is_active : BOOLEAN, score : Scores]] :
              n \in 0..MaxCourses }

WellFormedCorpus(rows) ==
    \A i \in DOMAIN rows :
        [level |-> rows[i].level, is_active |-> rows[i].is_active] \in CourseKinds

\* the levels argument: None is the empty sequence, a list of levels is the
\* one-element sequence of its set
LevelsGiven == {<<>>, <<{}>>, <<{100}>>}

\* CourseFilter values: no filter at all, the filters get_recommendations
\* builds, and a filter that asks for inactive courses
Filters ==
    { [kind |-> "None"] } \cup
    { [kind |-> "CourseFilter", levels |-> l, include_inactive |-> FALSE] :
        l \in LevelsGiven } \cup
    { [kind |-> "CourseFilter", levels |-> <<>>, include_inactive |-> TRUE] }

\* `if filters.levels:` is false for None and for the empty list
LevelsTruthy(levels) == levels # <<>> /\ levels[1] # {}

\* the filter test of _apply_filters for one row
Passes(row, filters) ==
    \/ filters.kind = "None"
    \/ /\ LevelsTruthy(filters.levels) => row.level \in filters.levels[1]
       /\ filters.include_inactive \/ row.is_active

\* _apply_filters: the rows that pass, in frame order, with their ids
apply_filters(courses_df, filters) ==
    LET rows == [i \in DOMAIN courses_df |->
                    [id |-> i, score |-> courses_df[i].score,
                     level |-> courses_df[i].level,
                     is_active |-> courses_df[i].is_active]]
        keep(row) == Passes(row, filters)
    IN  SelectSeq(rows, keep)

\* _calculate_similarities: one similarity per filtered row
calculate_similarities(filtered_courses) ==
    [i \in DOMAIN filtered_courses |-> filtered_courses[i].score]

\* np.argsort(similarities) with the default sort kind, which is not
\* stable: any ascending order of the positions
argsort(similarities) ==
    { p \in Permutations(DOMAIN similarities) :
        \A i, j \in DOMAIN similarities :
            i < j => similarities[p[i]] <= similarities[p[j]] }

\* order[-limit:]: the slice starts at 0 when -limit is 0 or reaches before
\* the first element
LastItems(order, limit) ==
    LET n == Len(order)
        start == IF limit = 0 \/ limit >= n THEN 0 ELSE n - limit
    IN  [i \in 1..(n - start) |-> order[start + i]]

\* [::-1]
Reversed(seq) == [i \in 1..Len(seq) |-> seq[Len(seq) + 1 - i]]

\* faulty ranking: the ascending slice is not reversed
top_indices_ascending(order, limit) == LastItems(order, limit)

\* np.argsort(similarities)[-limit:][::-1]
top_indices(order, limit) == Reversed(LastItems(order, limit))

\* faulty threshold test: a similarity equal to the threshold passes
AboveThresholdOrEqual(similarity) == similarity >= Threshold

\* `similarities[idx] > 0.5`
AboveThreshold(similarity) == similarity > Threshold

\* the loop over top_indices that builds similar_courses
similar_courses(filtered_courses, similarities, indices) ==
    LET above(idx) == AboveThreshold(similarities[idx])
        kept == SelectSeq(indices, above)
    IN  [i \in DOMAIN kept |->
            [id |-> filtered_courses[kept[i]].id,
             similarity_score |-> similarities[kept[i]]]]

\* the sequences search_similar_courses can return
SearchResults(courses_df, filters, limit) ==
    IF Len(courses_df) = 0 THEN {<<>>}
    ELSE LET filtered_courses == apply_filters(courses_df, filters)
             similarities == calculate_similarities(filtered_courses)
         IN  IF Len(filtered_courses) = 0 THEN {<<>>}
             ELSE { similar_courses(filtered_courses, similarities,
                                    top_indices(order, limit)) :
                        order \in argsort(similarities) }

\* faulty truncation: the last n matches are kept
FinalItems(seq, n) == LastItems(seq, Min(n, Len(seq)))

\* similar_courses[: n]
FirstItems(seq, n) == [i \in 1..Min(n, Len(seq)) |-> seq[i]]

InitSearch ==
    /\ InitQuota
    /\ settings = "development"
    /\ user.id = "guest"

\* the corpus frame is loaded
LoadCorpus ==
    /\ last.op = "none"
    /\ \E rows \in Corpora :
          /\ WellFormedCorpus(rows)
          /\ corpus' = [courses |-> rows, broken |-> FALSE]
    /\ last' = [op |-> "load_course_data"]
    /\ UNCHANGED <<now, settings, user, cache, expiry, rlCalls, recCalls, sinceReset, written, redis>>
    /\ UNCHANGED <<reqs, pc, emitted, expl, sent, orphan, outcome, failed, locals,
                   api_semaphore, embedding_lock, usage_records>>

\* the first call of search_similar_courses on the loaded corpus
SearchSimilarCourses ==
    /\ last.op = "load_course_data"
    /\ \E filters \in Filters, limit \in 0..MaxLimit :
          \E result \in SearchResults(corpus.courses, filters, limit) :
              last' = [op |-> "search_similar_courses", filters |-> filters,
                       limit |-> limit, result |-> result]
    /\ UNCHANGED <<now, settings, user, cache, expiry, rlCalls, recCalls, sinceReset, written, redis>>
    /\ UNCHANGED pipeVars

\* the response the first get_recommendations builds from its search: the
\* filter of the request, limit min(50, 3 * max_results), the first
\* max_results matches and the count of the matches found
GetRecommendationsResponse ==
    /\ last.op = "load_course_data"
    /\ \E levels \in LevelsGiven, max_results \in 1..MaxResults :
          LET course_filter == [kind |-> "CourseFilter", levels |-> levels,
                                include_inactive |-> FALSE]
              limit == Min(SearchCap, max_results * CandidateFactor)
          IN  \E found \in SearchResults(corpus.courses, course_filter, limit) :
                  last' = [op |-> "get_recommendations", filters |-> course_filter,
                           max_results |-> max_results,
                           recommendations |-> FirstItems(found, max_results),
                           total_courses_searched |-> Len(found),
                           search_explanation |->
                               IF Len(found) = 0 THEN "No courses found"
                               ELSE "Found relevant courses"]
    /\ UNCHANGED <<now, settings, user, cache, expiry, rlCalls, recCalls, sinceReset, written, redis>>
    /\ UNCHANGED pipeVars

NextSearch ==
    \/ LoadCorpus
    \/ SearchSimilarCourses
    \/ GetRecommendationsResponse

SpecSearch == InitSearch /\ [][NextSearch]_vars

(***************************************************************************)
(* The recommendation endpoints: POST / and POST /stream.  The route        *)
(* dependency check_rate_limit runs first, the handler body follows.        *)
(***************************************************************************)
Endpoints == {"get", "stream"}

\* what the parameter `quota_service = Depends(get_quota_service)` of
\* dependencies.check_quota is bound to: the framework injects the service
\* into a route dependency, a direct call leaves the default in place
QuotaServiceParameter(direct) == IF direct THEN "Depends" ELSE "QuotaService"

\* dependencies.check_quota: how the call ends
check_quota(quota_service, quota_result) ==
    IF quota_service # "QuotaService" THEN "AttributeError"
    ELSE IF quota_result.allowed THEN "return" ELSE "HTTPException"

\* the handler body: `await check_quota(current_user)` under `if current_user`,
\* then the pipeline; HTTPException is re-raised, any other exception is
\* answered with 500
HandlerStatus(quota_call) ==
    CASE quota_call = "HTTPException" -> 429
      [] quota_call = "AttributeError" -> 500
      [] quota_call = "return" -> 200

\* faulty handler: the pipeline is called whatever the quota gate answered
PipelineCalledUngated(rate_allowed, quota_call) == rate_allowed

\* whether the request reaches recommendation_service.get_recommendations or
\* stream_recommendations: the route dependency check_rate_limit has to
\* return for the handler body to run, and `await check_quota(current_user)`
\* has to return for the body to go on to the service call
PipelineCalled(rate_allowed, quota_call) == rate_allowed /\ quota_call = "return"

\* one request to a recommendation endpoint, run to its response.  The
\* requester is always present in the handler: check_rate_limit substitutes
\* the guest user for an unauthenticated request
RecommendationsEndpoint(e) ==
    LET key == RateLimitKey(user, now)
        S1 == MemGet(Store, now)
        current_count == GetOr(S1, key, 0)
        rate_limit == get_rate_limit_for_user(user)
        rate_limit_result == RateDecision(current_count, rate_limit, now)
        S2 == MemIncrement(S1, now, key, 1)
        S3 == MemSet(S2, now, key, current_count + 1, SecondsPerMinute)
        S4 == IF rate_limit_result.allowed THEN S3 ELSE S1
        quota_result == QuotaDecision(GetOr(S4, DailyUsageKey(user.id, now), 0),
                                      get_quota_for_user(settings, user), now)
        quota_service == QuotaServiceParameter(TRUE)
        quota_call == check_quota(quota_service, quota_result)
        b == MinuteOf(now)
    IN  /\ CallsIn(b) < MaxRateCalls
        /\ cache' = S4.cache
        /\ expiry' = S4.expiry
        /\ rlCalls' = [bucket |-> b, n |-> CallsIn(b) + 1,
                       prevFull |-> IF rlCalls.bucket = b THEN rlCalls.prevFull
                                    ELSE rlCalls.n > rate_limit,
                       window |-> rlCalls.window]
        /\ last' = IF ~rate_limit_result.allowed
                   THEN [op |-> "endpoint", endpoint |-> e, status |-> 429,
                         gate |-> "rate_limit",
                         pipeline |-> PipelineCalled(FALSE, quota_call),
                         rate_allowed |-> FALSE,
                         quota_allowed |-> quota_result.allowed,
                         reset |-> rate_limit_result.reset_time]
                   ELSE [op |-> "endpoint", endpoint |-> e,
                         status |-> HandlerStatus(quota_call),
                         gate |-> "quota",
                         pipeline |-> PipelineCalled(TRUE, quota_call),
                         rate_allowed |-> TRUE,
                         quota_allowed |-> quota_result.allowed,
                         reset |-> quota_result.reset_time]
        /\ UNCHANGED <<now, settings, user, recCalls, sinceReset, written, redis, pipeVars>>

\* an unauthenticated client under the development settings: the handler
\* sees the guest user that check_rate_limit puts in its place
InitApi ==
    /\ InitQuota
    /\ settings = "development"
    /\ user.id = "guest"

\* the endpoints and the quota counter under a moving clock
NextApi ==
    \/ Tick
    \/ RecordRequest
    \/ \E e \in Endpoints : RecommendationsEndpoint(e)

SpecApi == InitApi /\ [][NextApi]_vars

(***************************************************************************)
(* MemoryCacheService on its own.  Every method runs under self.lock and   *)
(* never suspends: a method is one step at one instant.                    *)
(***************************************************************************)
\* Settings.cache_ttl_seconds, from which default_expire is built
cache_ttl_seconds == 3600

\* largest counter value increment is followed to
MaxCounter == 2

CacheKeys == {"a", "b"}

CacheValues == {1, 2}

\* the expire argument in seconds; None and timedelta(0) are both falsy and
\* both written 0
Expires == {0, 30}

\* expire or self.default_expire
expire_time(expire) == IF expire # 0 THEN expire ELSE cache_ttl_seconds

\* set with an optional expire: the value is replaced; the expiry instant
\* is replaced when expire_time is truthy
MemSetExpire(S, t, k, v, expire) ==
    [cache |-> Put(S.cache, k, v),
     expiry |-> IF expire_time(expire) # 0
                THEN Put(S.expiry, k, t + expire_time(expire))
                ELSE S.expiry]

\* self.cache.get(key): None is the empty sequence, a value v is <<v>>
MemGetValue(S, k) == IF k \in DOMAIN S.cache THEN <<S.cache[k]>> ELSE <<>>

\* {key: self.cache[key] for key in keys if key in self.cache}
MemGetMany(S, keys) == Restrict(S.cache, keys \cap DOMAIN S.cache)

InitCache ==
    /\ InitQuota
    /\ settings = "development"
    /\ user.id = "guest"

\* the instants the cache is used at: within an explicit expire, past it,
\* and past the default expire
CacheInstants == {0, 30, 60, cache_ttl_seconds, cache_ttl_seconds + 30}

\* datetime.utcnow() moves on between two cache operations
CacheTick ==
    /\ \E t \in CacheInstants : t > now /\ now' = t
    /\ last' = [op |-> "tick"]
    /\ UNCHANGED <<settings, user, cache, expiry, rlCalls, recCalls, sinceReset,
                   written, redis, pipeVars>>

CacheGet ==
    \E k \in CacheKeys :
        LET S == cleanup_expired(Store, now)
        IN  /\ cache' = S.cache
            /\ expiry' = S.expiry
            /\ last' = [op |-> "get", key |-> k, value |-> MemGetValue(S, k)]
            /\ UNCHANGED <<now, settings, user, rlCalls, recCalls, sinceReset, written, redis, pipeVars>>

CacheSet ==
    \E k \in CacheKeys, v \in CacheValues, expire \in Expires :
        LET S == MemSetExpire(Store, now, k, v, expire)
        IN  /\ cache' = S.cache
            /\ expiry' = S.expiry
            /\ last' = [op |-> "set", key |-> k, ok |-> TRUE]
            /\ written' = Put(written, k, [op |-> "set", at |-> now, expire |-> expire, value |-> v])
            /\ UNCHANGED <<now, settings, user, rlCalls, recCalls, sinceReset, redis, pipeVars>>

CacheDelete ==
    \E k \in CacheKeys :
        LET S == MemDelete(Store, k)
        IN  /\ cache' = S.cache
            /\ expiry' = S.expiry
            /\ last' = [op |-> "delete", key |-> k, deleted |-> MemDeleted(Store, k),
                        visible |-> k \in DOMAIN cleanup_expired(Store, now).cache]
            /\ written' = Put(written, k, [op |-> "delete"])
            /\ UNCHANGED <<now, settings, user, rlCalls, recCalls, sinceReset, redis, pipeVars>>

CacheExists ==
    \E k \in CacheKeys :
        LET S == cleanup_expired(Store, now)
        IN  /\ cache' = S.cache
            /\ expiry' = S.expiry
            /\ last' = [op |-> "exists", key |-> k, exists |-> k \in DOMAIN S.cache]
            /\ UNCHANGED <<now, settings, user, rlCalls, recCalls, sinceReset, written, redis, pipeVars>>

CacheIncrement ==
    \E k \in CacheKeys :
        LET S == MemIncrement(Store, now, k, 1)
        IN  /\ S.cache[k] <= MaxCounter
            /\ cache' = S.cache
            /\ expiry' = S.expiry
            /\ last' = [op |-> "increment", key |-> k, new_value |-> S.cache[k]]
            /\ written' = Put(written, k, [op |-> "increment"])
            /\ UNCHANGED <<now, settings, user, rlCalls, recCalls, sinceReset, redis, pipeVars>>

CacheGetMany ==
    \E keys \in SUBSET CacheKeys :
        LET S == cleanup_expired(Store, now)
        IN  /\ cache' = S.cache
            /\ expiry' = S.expiry
            /\ last' = [op |-> "get_many", keys |-> keys, values |-> MemGetMany(S, keys)]
            /\ UNCHANGED <<now, settings, user, rlCalls, recCalls, sinceReset, written, redis, pipeVars>>

\* set_many: one expiry instant is computed, then every item is stored
\* with it
MemSetMany(S, t, items, expire) ==
    LET keys == DOMAIN items
    IN  [cache |-> [k \in DOMAIN S.cache \cup keys |->
                        IF k \in keys THEN items[k] ELSE S.cache[k]],
         expiry |-> IF expire_time(expire) # 0
                    THEN [k \in DOMAIN S.expiry \cup keys |->
                            IF k \in keys THEN t + expire_time(expire)
                            ELSE S.expiry[k]]
                    ELSE S.expiry]

CacheSetMany ==
    \E keys \in SUBSET CacheKeys, v \in CacheValues, expire \in Expires :
        LET S == MemSetMany(Store, now, [k \in keys |-> v], expire)
        IN  /\ cache' = S.cache
            /\ expiry' = S.expiry
            /\ last' = [op |-> "set_many", keys |-> keys, ok |-> TRUE]
            /\ written' = [k \in DOMAIN written \cup keys |->
                              IF k \in keys THEN [op |-> "set_many"] ELSE written[k]]
            /\ UNCHANGED <<now, settings, user, rlCalls, recCalls, sinceReset, redis, pipeVars>>

NextCache ==
    \/ CacheTick
    \/ CacheSetMany
    \/ CacheGet
    \/ CacheSet
    \/ CacheDelete
    \/ CacheExists
    \/ CacheIncrement
    \/ CacheGetMany

SpecCache == InitCache /\ [][NextCache]_vars

\* the endpoints and the quota counter at the instants of one hour
NextGate ==
    \/ CacheTick
    \/ RecordRequest
    \/ \E e \in Endpoints : RecommendationsEndpoint(e)

SpecGate == InitApi /\ [][NextGate]_vars

(***************************************************************************)
(* RedisCacheService.  self.redis is None, or a client of a server that is *)
(* reachable ("up") or not ("down"); every call on a client whose server   *)
(* is down raises a ConnectionError in its await.  The server keeps the    *)
(* serialized values and the expiry instants; a key is gone once its       *)
(* expiry instant is reached.                                              *)
(***************************************************************************)
RedisOps ==
    {"get", "set", "delete", "exists", "increment", "get_many", "set_many",
     "clear_pattern"}

\* `if not self.redis: return ...` at the head of each method; None is the
\* empty sequence, {} the empty mapping
NoClient(op) ==
    CASE op = "get" -> <<>>
      [] op \in {"set", "delete", "exists", "set_many"} -> FALSE
      [] op \in {"increment", "clear_pattern"} -> 0
      [] op = "get_many" -> <<>>

\* faulty handler: the client error escapes the method
CaughtReraises(op) == [raised |-> TRUE, value |-> <<>>]

\* `except Exception as e: logger.warning(...); return ...` of each method
Caught(op) ==
    [raised |-> FALSE,
     value |-> CASE op = "get" -> <<>>
                 [] op = "set" -> FALSE
                 [] op = "delete" -> FALSE
                 [] op = "exists" -> FALSE
                 [] op = "increment" -> 0
                 [] op = "get_many" -> <<>>
                 [] op = "set_many" -> FALSE
                 [] op = "clear_pattern" -> 0]

\* json.dumps(value) and json.loads(value)
Serialize(v) == [json |-> v]
Deserialize(x) == x.json

\* the server drops the keys whose expiry instant has been reached
Purge(S, t) ==
    LET gone == {k \in DOMAIN S.expiry : S.expiry[k] <= t}
    IN  [cache |-> Restrict(S.cache, DOMAIN S.cache \ gone),
         expiry |-> Restrict(S.expiry, DOMAIN S.expiry \ gone)]

\* expire_seconds of set and set_many: the expire given, else default_expire
expire_seconds(expire) == IF expire # 0 THEN expire ELSE cache_ttl_seconds

\* a method called with the client in its current state: `up` is what the
\* await returns from a reachable server, S the store the server is left with
RedisCall(op, up, S) ==
    /\ last' = [op |-> op, client |-> redis,
                result |-> CASE redis = "none" -> [raised |-> FALSE, value |-> NoClient(op)]
                             [] redis = "down" -> Caught(op)
                             [] redis = "up" -> [raised |-> FALSE, value |-> up]]
    /\ cache' = IF redis = "up" THEN S.cache ELSE cache
    /\ expiry' = IF redis = "up" THEN S.expiry ELSE expiry
    /\ UNCHANGED <<now, settings, user, rlCalls, recCalls, sinceReset, written, redis, pipeVars>>

RedisGet ==
    \E k \in CacheKeys :
        LET S == Purge(Store, now)
        IN  RedisCall("get",
                      IF k \in DOMAIN S.cache THEN <<Deserialize(S.cache[k])>> ELSE <<>>,
                      S)

RedisSet ==
    \E k \in CacheKeys, v \in CacheValues, expire \in Expires :
        LET S == Purge(Store, now)
        IN  RedisCall("set", TRUE,
                      [cache |-> Put(S.cache, k, Serialize(v)),
                       expiry |-> Put(S.expiry, k, now + expire_seconds(expire))])

RedisDelete ==
    \E k \in CacheKeys :
        LET S == Purge(Store, now)
        IN  RedisCall("delete", k \in DOMAIN S.cache, MemDelete(S, k))

RedisExists ==
    \E k \in CacheKeys :
        LET S == Purge(Store, now)
        IN  RedisCall("exists", k \in DOMAIN S.cache, S)

\* INCRBY: a missing key counts from 0 and gets no expiry
RedisIncrement ==
    \E k \in CacheKeys :
        LET S == Purge(Store, now)
            new_value == (IF k \in DOMAIN S.cache THEN Deserialize(S.cache[k]) ELSE 0) + 1
        IN  /\ new_value <= MaxCounter
            /\ RedisCall("increment", new_value,
                         [cache |-> Put(S.cache, k, Serialize(new_value)),
                          expiry |-> S.expiry])

RedisGetMany ==
    \E keys \in SUBSET CacheKeys :
        LET S == Purge(Store, now)
        IN  RedisCall("get_many",
                      [k \in keys \cap DOMAIN S.cache |-> Deserialize(S.cache[k])],
                      S)

RedisSetMany ==
    \E keys \in SUBSET CacheKeys, v \in CacheValues, expire \in Expires :
        LET S == Purge(Store, now)
        IN  RedisCall("set_many", TRUE,
                      [cache |-> [k \in DOMAIN S.cache \cup keys |->
                                    IF k \in keys THEN Serialize(v) ELSE S.cache[k]],
                       expiry |-> [k \in DOMAIN S.expiry \cup keys |->
                                    IF k \in keys THEN now + expire_seconds(expire)
                                    ELSE S.expiry[k]]])

\* clear_pattern: the pattern is given by the set of keys it matches
RedisClearPattern ==
    \E matching \in SUBSET CacheKeys :
        LET S == Purge(Store, now)
            keys == matching \cap DOMAIN S.cache
        IN  RedisCall("clear_pattern", Cardinality(keys),
                      [cache |-> Restrict(S.cache, DOMAIN S.cache \ keys),
                       expiry |-> Restrict(S.expiry, DOMAIN S.expiry \ keys)])

\* the server becomes unreachable, or reachable again
ServerChanges ==
    /\ redis \in {"up", "down"}
    /\ redis' = IF redis = "up" THEN "down" ELSE "up"
    /\ UNCHANGED <<now, settings, user, cache, expiry, last, rlCalls, recCalls, sinceReset,
                   written, pipeVars>>

InitRedis ==
    /\ now = 0
    /\ settings = "development"
    /\ user = [id |-> "guest", role |-> "guest", department |-> NoDepartment]
    /\ cache = <<>>
    /\ expiry = <<>>
    /\ last = [op |-> "none"]
    /\ rlCalls = [bucket |-> 0, n |-> 0, prevFull |-> FALSE]
    /\ recCalls = [day |-> 0, n |-> 0]
    /\ sinceReset = "no"
    /\ written = <<>>
    /\ redis \in {"none", "up", "down"}
    /\ NoCalls

NextRedis ==
    \/ Tick
    \/ ServerChanges
    \/ RedisGet
    \/ RedisSet
    \/ RedisDelete
    \/ RedisExists
    \/ RedisIncrement
    \/ RedisGetMany
    \/ RedisSetMany
    \/ RedisClearPattern

SpecRedis == InitRedis /\ [][NextRedis]_vars

(***************************************************************************)
(* VectorService.update_course_embedding and delete_course_embedding,       *)
(* called concurrently on the cache service the application wires           *)
(* (RedisCacheService).  A call gives way to the others at its cache        *)
(* await; what follows the await runs without giving way.                   *)
(***************************************************************************)
CourseIds == {"c1", "c2"}
\* the embeddings handed to update_course_embedding
NewEmbeddings == {<<0, 1>>, <<1, 1>>}
\* expire=timedelta(days=7), seconds
CourseEmbeddingTTL == 604800

\* f"course_embedding:{course_id}"
CourseKey(course_id) == <<"course_embedding", course_id>>

\* the entry of course c1 is stored, course c2 has none
CourseStored ==
    [cache |-> Put(<<>>, CourseKey("c1"), Serialize([embedding |-> Embedding])),
     expiry |-> Put(<<>>, CourseKey("c1"), CourseEmbeddingTTL)]

MutationCalls ==
    { [kind |-> "update_course_embedding", course_id |-> c, embedding |-> e] :
        c \in CourseIds, e \in NewEmbeddings }
    \cup { [kind |-> "delete_course_embedding", course_id |-> c] : c \in CourseIds }

\* RedisCacheService.get as update_course_embedding sees it: the parsed
\* value, or None without a client, on a client error and for a missing key
CourseGet(S, t, client, k) ==
    IF client = "up" /\ k \in DOMAIN Purge(S, t).cache
    THEN <<Deserialize(Purge(S, t).cache[k])>>
    ELSE <<>>

\* intended body: the entry is rewritten with the new embedding and the
\* call returns True
UpdateWriteSucceeds(S, t, client, k, existing_data, embedding) ==
    IF existing_data # <<>>
    THEN [store |-> IF client = "up"
                    THEN [cache |-> Put(Purge(S, t).cache, k,
                                        Serialize([embedding |-> embedding])),
                          expiry |-> Put(Purge(S, t).expiry, k, t + CourseEmbeddingTTL)]
                    ELSE S,
          returned |-> TRUE]
    ELSE [store |-> S, returned |-> FALSE]

\* update_course_embedding after the get: with existing data the local copy
\* takes the embedding, `datetime.utcnow()` raises NameError ahead of the
\* cache set, and the handler returns False; without data it returns False
UpdateWrite(S, t, client, k, existing_data, embedding) ==
    [store |-> S, returned |-> FALSE]

\* RedisCacheService.delete: `result > 0`, False without a client and on a
\* client error
CourseDelete(S, t, client, k) ==
    IF client = "up"
    THEN [store |-> MemDelete(Purge(S, t), k),
          returned |-> k \in DOMAIN Purge(S, t).cache]
    ELSE [store |-> S, returned |-> FALSE]

InitMutate ==
    /\ now = 0
    /\ settings = "development"
    /\ user = [id |-> "guest", role |-> "guest", department |-> NoDepartment]
    /\ cache = CourseStored.cache
    /\ expiry = CourseStored.expiry
    /\ last = [op |-> "none"]
    /\ rlCalls = [bucket |-> 0, n |-> 0, prevFull |-> FALSE]
    /\ recCalls = [day |-> 0, n |-> 0]
    /\ sinceReset = "no"
    /\ written = <<>>
    /\ redis \in {"none", "up", "down"}
    /\ ServicesInit
    /\ reqs \in [1..MaxWorkers -> MutationCalls]
    /\ corpus = [eligible |-> 0, broken |-> FALSE]
    /\ pc = [r \in 1..MaxWorkers |-> "idle"]
    /\ expl = [r \in 1..MaxWorkers |-> <<>>]
    /\ sent = [r \in 1..MaxWorkers |-> 0]
    /\ emitted = [r \in 1..MaxWorkers |-> <<>>]
    /\ orphan = {}
    /\ outcome = [r \in 1..MaxWorkers |-> [kind |-> "none"]]
    /\ failed = [r \in 1..MaxWorkers |-> "none"]
    /\ locals = [r \in 1..MaxWorkers |-> <<>>]

\* update_course_embedding up to and including
\* `existing_data = await self.cache_service.get(cache_key)`
UpdateGet(r) ==
    /\ pc[r] = "idle"
    /\ reqs[r].kind = "update_course_embedding"
    /\ LET cache_key == CourseKey(reqs[r].course_id)
       IN  locals' = [locals EXCEPT ![r] =
                         [cache_key |-> cache_key,
                          existing_data |-> CourseGet(Store, now, redis, cache_key)]]
    /\ Goto(r, "update_write")
    /\ UNCHANGED <<now, settings, user, cache, expiry, last, rlCalls, recCalls,
                   sinceReset, written, redis>>
    /\ UNCHANGED <<reqs, corpus, expl, sent, orphan, outcome, failed,
                   api_semaphore, embedding_lock, usage_records>>

\* update_course_embedding from `if existing_data:` to its return
UpdateReturn(r) ==
    /\ pc[r] = "update_write"
    /\ LET u == UpdateWrite(Store, now, redis, locals[r].cache_key,
                            locals[r].existing_data, reqs[r].embedding)
       IN  /\ cache' = u.store.cache
           /\ expiry' = u.store.expiry
           /\ written' = IF u.store # Store
                         THEN Put(written, locals[r].cache_key, [op |-> "set"])
                         ELSE written
           /\ Ends(r, [kind |-> "update_course_embedding", returned |-> u.returned])
    /\ Goto(r, "done")
    /\ UNCHANGED <<now, settings, user, last, rlCalls, recCalls, sinceReset, redis>>
    /\ UNCHANGED <<reqs, corpus, expl, sent, orphan, failed, locals,
                   api_semaphore, embedding_lock, usage_records>>

\* delete_course_embedding: `return await self.cache_service.delete(cache_key)`
DeleteCourseEmbedding(r) ==
    /\ pc[r] = "idle"
    /\ reqs[r].kind = "delete_course_embedding"
    /\ LET cache_key == CourseKey(reqs[r].course_id)
           dl == CourseDelete(Store, now, redis, cache_key)
       IN  /\ cache' = dl.store.cache
           /\ expiry' = dl.store.expiry
           /\ written' = IF dl.returned
                         THEN Put(written, cache_key, [op |-> "delete"])
                         ELSE written
           /\ Ends(r, [kind |-> "delete_course_embedding", returned |-> dl.returned])
    /\ Goto(r, "done")
    /\ UNCHANGED <<now, settings, user, last, rlCalls, recCalls, sinceReset, redis>>
    /\ UNCHANGED <<reqs, corpus, expl, sent, orphan, failed, locals,
                   api_semaphore, embedding_lock, usage_records>>

NextMutate ==
    \/ \E r \in Calls : UpdateGet(r)
    \/ \E r \in Calls : UpdateReturn(r)
    \/ \E r \in Calls : DeleteCourseEmbedding(r)

SpecMutate == InitMutate /\ [][NextMutate]_vars

\* one call run alone, from its first line to its return
SerialCall(S, t, client, req) ==
    LET k == CourseKey(req.course_id)
    IN  IF req.kind = "delete_course_embedding"
        THEN CourseDelete(S, t, client, k).store
        ELSE UpdateWrite(S, t, client, k, CourseGet(S, t, client, k),
                         req.embedding).store

RECURSIVE SerialRun(_, _, _, _, _)
\* the calls of the workers listed in order, run one after the other
SerialRun(S, t, client, rs, order) ==
    IF order = <<>> THEN S
    ELSE SerialRun(SerialCall(S, t, client, rs[Head(order)]), t, client, rs,
                   Tail(order))

\* the orders in which the workers' calls can be run one at a time
SerialOrders ==
    { o \in [1..MaxWorkers -> 1..MaxWorkers] :
        \A i, j \in 1..MaxWorkers : o[i] = o[j] => i = j }

\* the stores a serial order of the workers' calls ends with
SerialFinals ==
    { SerialRun(CourseStored, now, redis, reqs, o) : o \in SerialOrders }

(***************************************************************************)
(* QuotaService on the cache service the application wires,                 *)
(* RedisCacheService, with the server reachable or not.  The calls of one   *)
(* requester run one after the other.                                       *)
(***************************************************************************)
\* what a RedisCacheService method answers: its neutral value without a
\* client, what its handler makes of the client error, or what the server
\* returned
Answer(op, client, up) ==
    CASE client = "none" -> [raised |-> FALSE, value |-> NoClient(op)]
      [] client = "down" -> Caught(op)
      [] client = "up" -> [raised |-> FALSE, value |-> up]

\* `await self.cache_service.get(key) or d`
OrDefault(got, d) == IF got = <<>> \/ got[1] = 0 THEN d ELSE got[1]

\* the store after SET key value EX seconds on a reachable server
ServerSet(S, t, client, k, v, expire) ==
    IF client = "up"
    THEN [cache |-> Put(Purge(S, t).cache, k, Serialize(v)),
          expiry |-> Put(Purge(S, t).expiry, k, t + expire)]
    ELSE S

\* the store after INCRBY key 1 on a reachable server
ServerIncrement(S, t, client, k) ==
    IF client = "up"
    THEN [cache |-> Put(Purge(S, t).cache, k,
                        Serialize(OrDefault(CourseGet(S, t, client, k), 0) + 1)),
          expiry |-> Purge(S, t).expiry]
    ELSE S

\* faulty tail: record_request answers with what the cache set answered
record_request_returns_set(set_answer) == set_answer.value

\* QuotaService.record_request: `return True` after the cache set, whatever
\* the set answered
record_request_returns(set_answer) == TRUE

\* QuotaService.check_rate_limit(user) on RedisCacheService
OpenCheckRateLimit ==
    LET key == RateLimitKey(user, now)
        got == Answer("get", redis, CourseGet(Store, now, redis, key))
        current_count == OrDefault(got.value, 0)
        rate_limit == get_rate_limit_for_user(user)
        rejected == LimitReached(current_count, rate_limit)
        S1 == ServerIncrement(Store, now, redis, key)
        S2 == ServerSet(S1, now, redis, key, current_count + 1, SecondsPerMinute)
        incremented == Answer("increment", redis, current_count + 1)
        was_set == Answer("set", redis, TRUE)
        S3 == IF rejected THEN Store ELSE S2
    IN  /\ last' = [op |-> "check_rate_limit", client |-> redis,
                    raised |-> got.raised \/ (~rejected /\ (incremented.raised \/ was_set.raised)),
                    allowed |-> ~rejected, count |-> current_count]
        /\ cache' = S3.cache
        /\ expiry' = S3.expiry
        /\ UNCHANGED <<now, settings, user, rlCalls, recCalls, sinceReset, written, redis, pipeVars>>

\* QuotaService.check_quota(user) on RedisCacheService
OpenCheckQuota ==
    LET daily_usage_key == DailyUsageKey(user.id, now)
        got == Answer("get", redis, CourseGet(Store, now, redis, daily_usage_key))
        current_usage == OrDefault(got.value, 0)
        quota_limit == get_quota_for_user(settings, user)
    IN  /\ last' = [op |-> "check_quota", client |-> redis, raised |-> got.raised,
                    allowed |-> QuotaDecision(current_usage, quota_limit, now).allowed,
                    count |-> current_usage]
        /\ UNCHANGED <<now, settings, user, cache, expiry, rlCalls, recCalls, sinceReset,
                       written, redis, pipeVars>>

\* QuotaService.record_request(user) on RedisCacheService
OpenRecordRequest ==
    LET today == DateOf(now)
        daily_usage_key == DailyUsageKey(user.id, now)
        incremented == Answer("increment", redis, 0)
        S1 == ServerIncrement(Store, now, redis, daily_usage_key)
        expire_delta == StartOfDay(today + 2) - now
        got == Answer("get", redis, CourseGet(S1, now, redis, daily_usage_key))
        current_count == OrDefault(got.value, 1)
        was_set == Answer("set", redis, TRUE)
        S2 == ServerSet(S1, now, redis, daily_usage_key, current_count, expire_delta)
        caught == incremented.raised \/ got.raised \/ was_set.raised
    IN  /\ OrDefault(CourseGet(Store, now, "up", daily_usage_key), 0) < MaxUsage
        /\ last' = [op |-> "record_request", client |-> redis, raised |-> FALSE,
                    allowed |-> TRUE,
                    count |-> current_count,
                    value |-> IF caught THEN FALSE ELSE record_request_returns(was_set)]
        /\ cache' = S2.cache
        /\ expiry' = S2.expiry
        /\ UNCHANGED <<now, settings, user, rlCalls, recCalls, sinceReset, written, redis, pipeVars>>

NextOpen ==
    \/ ServerChanges
    \/ OpenCheckRateLimit
    \/ OpenCheckQuota
    \/ OpenRecordRequest

SpecOpen == InitRedis /\ [][NextOpen]_vars

(***************************************************************************)
(* Properties of the rate-limit gate and the daily quota                   *)
(***************************************************************************)
Today == DateOf(now)

C2_QuotaRejectsAtQ ==
    last.op = "check_quota" =>
        /\ last.allowed <=> RecordedOn(Today) < get_quota_for_user(settings, user)
        /\ ~last.allowed =>
              /\ last.reset_time % SecondsPerDay = 0
              /\ last.reset_time > now
              /\ last.reset_time - now <= SecondsPerDay

\* check_quota rejected after exactly Q recorded requests that day
C2_Witness ==
    /\ last.op = "check_quota"
    /\ ~last.allowed
    /\ RecordedOn(Today) = get_quota_for_user(settings, user)

\* C3: the check_quota that follows reset_user_quota on the same day, with
\* nothing recorded in between, returns allowed with current_usage 0.
C3_ResetReadmits ==
    (last.op = "check_quota" /\ sinceReset # "no") =>
        (last.allowed /\ last.current_usage = 0)

\* check_quota ran after a reset that found the count at or above the limit
C3_Witness ==
    /\ last.op = "check_quota"
    /\ sinceReset = "at_limit"
    /\ last.allowed

\* an override written by update_user_quota is stored and unexpired
OverrideInEffect(n) ==
    /\ QuotaOverrideKey(user.id) \in DOMAIN cache
    /\ cache[QuotaOverrideKey(user.id)] = n
    /\ expiry[QuotaOverrideKey(user.id)] >= now

\* C4: with an override of 5 in effect and 5 requests recorded that day,
\* check_quota rejects and reports limit 5, whatever the role and department.
C4_OverrideSupersedes ==
    (last.op = "check_quota" /\ OverrideInEffect(5) /\ RecordedOn(Today) = 5) =>
        (~last.allowed /\ last.limit = 5)

(***************************************************************************)
(* Properties of the pipeline and of the endpoints                         *)
(***************************************************************************)
\* the usage records written for call r
RecordsOf(r) == {i \in DOMAIN usage_records : usage_records[i].call = r}

\* blocking calls for the requester that returned recommendations
Succeeded ==
    {r \in Calls : /\ reqs[r].kind = "get"
                   /\ reqs[r].hasUser
                   /\ outcome[r].kind = "returned"
                   /\ outcome[r].recommendations > 0}

\* the count check_quota reads for the requester
DailyCount == GetOr(cleanup_expired(Store, now), DailyUsageKey(user.id, now), 0)

\* C5: every recommendation request that completed successfully for the
\* requester has raised the daily count check_quota reads by one, so the
\* count is never below the number of successful requests of the day.
C5_SuccessRaisesDailyCount == DailyCount >= Cardinality(Succeeded)

\* C6: every call of get_recommendations or stream_recommendations made for
\* a requester has exactly one usage record once it has ended, whichever way
\* it ended.
C6_ExactlyOneUsageRecord ==
    \A r \in Calls :
        (pc[r] = "done" /\ reqs[r].hasUser) => Cardinality(RecordsOf(r)) = 1

\* C7: a get_recommendations call in which description generation, embedding
\* or retrieval failed runs no later stage, raises to its caller, and leaves
\* exactly one usage record, with success false, for the requester.
C7_StageFailureRaises ==
    \A r \in Calls :
        (/\ reqs[r].kind = "get"
         /\ pc[r] = "done"
         /\ failed[r] \in {"description", "embedding", "retrieval"}) =>
            /\ outcome[r].kind = "raised"
            /\ expl[r] = <<>>
            /\ reqs[r].hasUser =>
                  /\ Cardinality(RecordsOf(r)) = 1
                  /\ \A i \in RecordsOf(r) : ~usage_records[i].success

\* C8: a get_recommendations call with include_explanations in which an
\* explanation provider call failed still returns: the response carries
\* every recommended match, the failed one with the fallback explanation,
\* and the usage record written for the requester is a success record.
C8_ExplanationFailureTolerated ==
    \A r \in Calls :
        (pc[r] = "done" /\ failed[r] = "explanation") =>
            /\ outcome[r].kind = "returned"
            /\ outcome[r].recommendations = Recommended(r)
            /\ Len(outcome[r].explanations) = outcome[r].recommendations
            /\ \E i \in DOMAIN outcome[r].explanations :
                  outcome[r].explanations[i] = "fallback"
            /\ reqs[r].hasUser =>
                  /\ Cardinality(RecordsOf(r)) = 1
                  /\ \A i \in RecordsOf(r) : usage_records[i].success

\* a call for a requester returned two matches, the first with the fallback
\* explanation after its provider call failed, the second explained
C8_Witness ==
    \E r \in Calls :
        /\ pc[r] = "done"
        /\ failed[r] = "explanation"
        /\ reqs[r].hasUser
        /\ outcome[r].kind = "returned"
        /\ outcome[r].explanations = <<"fallback", "text">>

\* C9: a request to a recommendation endpoint that the rate-limit gate or
\* the quota gate rejects is answered with status 429, never with 500.
C9_RejectionIs429 ==
    (last.op = "endpoint" /\ (~last.rate_allowed \/ ~last.quota_allowed)) =>
        last.status = 429

\* C10: at most five provider calls are in flight at any moment, embedding
\* calls counted with the chat completions.
C10_AtMostFiveInFlight == Cardinality(InFlight) <= SemaphoreSlots

\* calls whose consumer went away while provider chunks were streamed
DepartedStreaming ==
    {r \in Calls : /\ outcome[r].kind \in {"closed", "cancelled"}
                   /\ outcome[r].at \in {"y_chunk", "stream_call"}}

\* the calls that are inside an `async with self.api_semaphore`
SlotHolders ==
    {r \in Calls : pc[r] \in {"desc_call", "text_call", "expl_call", "stream_call",
                              "y_chunk"}}

C12_RaceIsBenign ==
    /\ \A r \in Calls :
          pc[r] = "done" =>
              /\ outcome[r].kind = "returned"
              /\ outcome[r].result.allowed <=>
                    locals[r].current_count < get_rate_limit_for_user(user)
    /\ \A k \in DOMAIN cache : cache[k] \in 1..rlCalls.n

\* more calls were accepted in the bucket than the limit allows, and the
\* calls have all returned
C12_Witness ==
    /\ \A r \in Calls : pc[r] = "done"
    /\ rlCalls.accepted > get_rate_limit_for_user(user)

\* the rows of the loaded corpus that pass the filter with a similarity
\* above the threshold
Eligible(filters) ==
    {i \in DOMAIN corpus.courses :
        Passes(corpus.courses[i], filters) /\ corpus.courses[i].score > Threshold}

\* C13: the sequence search_similar_courses returns is ordered by
\* non-increasing similarity score, for every limit of at least 1.
C13_SortedBySimilarity ==
    (last.op = "search_similar_courses" /\ last.limit >= 1) =>
        \A i, j \in DOMAIN last.result :
            i < j => last.result[i].similarity_score >= last.result[j].similarity_score

\* a search returned three matches of which the first scores above the last
C13_Witness ==
    /\ last.op = "search_similar_courses"
    /\ last.limit >= 1
    /\ Len(last.result) = 3
    /\ last.result[1].similarity_score > last.result[3].similarity_score

\* the ids of the matches in a returned sequence
IdsOf(matches) == {matches[i].id : i \in DOMAIN matches}

\* C14: matches of equal similarity are returned in corpus order, the row
\* loaded first ranked first, also where the tie decides which rows fall
\* inside the limit: no row left out ties with a returned row loaded later.
C14_TiesInCorpusOrder ==
    (last.op = "search_similar_courses" /\ last.limit >= 1) =>
        /\ \A i, j \in DOMAIN last.result :
              (i < j /\ last.result[i].similarity_score = last.result[j].similarity_score)
                  => last.result[i].id < last.result[j].id
        /\ \A e \in Eligible(last.filters) \ IdsOf(last.result) :
              \A i \in DOMAIN last.result :
                  last.result[i].similarity_score = corpus.courses[e].score
                      => last.result[i].id < e

\* C15: no match with a similarity of 0.5 or less is returned by
\* search_similar_courses or recommended by get_recommendations.
C15_AboveThresholdOnly ==
    /\ last.op = "search_similar_courses" =>
          \A i \in DOMAIN last.result : last.result[i].similarity_score > Threshold
    /\ last.op = "get_recommendations" =>
          \A i \in DOMAIN last.recommendations :
              last.recommendations[i].similarity_score > Threshold

\* a search that left out a row at the threshold which passed the filter and
\* was inside the limit, and returned another row
C15_Witness ==
    /\ last.op = "search_similar_courses"
    /\ last.limit >= Len(corpus.courses)
    /\ last.limit >= 1
    /\ Len(last.result) >= 1
    /\ \E i \in DOMAIN corpus.courses :
          /\ Passes(corpus.courses[i], last.filters)
          /\ corpus.courses[i].score = Threshold

\* C16: search_similar_courses returns at most limit matches, for every
\* limit from 0 on.
C16_AtMostLimit ==
    last.op = "search_similar_courses" => Len(last.result) <= last.limit

\* C17: get_recommendations returns min(max_results, number of eligible rows)
\* matches, all of them eligible, and no eligible row left out scores higher
\* than a returned match.
C17_TopEligibleReturned ==
    last.op = "get_recommendations" =>
        /\ Len(last.recommendations) =
              Min(last.max_results, Cardinality(Eligible(last.filters)))
        /\ Cardinality(IdsOf(last.recommendations)) = Len(last.recommendations)
        /\ IdsOf(last.recommendations) \subseteq Eligible(last.filters)
        /\ \A e \in Eligible(last.filters) \ IdsOf(last.recommendations) :
              \A i \in DOMAIN last.recommendations :
                  corpus.courses[e].score <= last.recommendations[i].similarity_score

\* a response with max_results matches while a lower-scoring eligible row was
\* left out
C17_Witness ==
    /\ last.op = "get_recommendations"
    /\ Len(last.recommendations) = last.max_results
    /\ \E e \in Eligible(last.filters) \ IdsOf(last.recommendations) :
          \E i \in DOMAIN last.recommendations :
              corpus.courses[e].score < last.recommendations[i].similarity_score

\* C18: total_courses_searched is the number of rows that passed the filter
\* with a similarity above the threshold, counted before any truncation, so
\* it does not depend on max_results.
C18_TotalCountsBeforeTruncation ==
    last.op = "get_recommendations" =>
        last.total_courses_searched = Cardinality(Eligible(last.filters))

\* call r takes a step out of the retrieval that found no match
LeavesEmptySearch(r) ==
    /\ pc[r] = "search"
    /\ Similar(r) = 0
    /\ pc'[r] # pc[r]

\* call r takes a step out of the no-courses message
LeavesNoCoursesMessage(r) ==
    /\ pc[r] = "y_nocourses"
    /\ pc'[r] # pc[r]

\* C19: when retrieval yields no match, get_recommendations returns at once
\* with no recommendations and a non-empty search_explanation, and
\* stream_recommendations yields the no-courses message and then ends;
\* neither takes a provider slot or raises.
C19_NoMatchEndsQuietly ==
    [][\A r \in Calls :
          /\ (LeavesEmptySearch(r) /\ reqs[r].kind = "get") =>
                /\ pc'[r] = "done"
                /\ outcome'[r].kind = "returned"
                /\ outcome'[r].recommendations = 0
                /\ outcome'[r].search_explanation # ""
                /\ api_semaphore' = api_semaphore
          /\ (LeavesEmptySearch(r) /\ reqs[r].kind = "stream") =>
                /\ pc'[r] = "y_nocourses"
                /\ api_semaphore' = api_semaphore
          /\ LeavesNoCoursesMessage(r) =>
                /\ pc'[r] = "done"
                /\ outcome'[r].kind \in {"ended", "closed"}
                /\ api_semaphore' = api_semaphore]_vars

\* a stream ended right after its no-courses message
C19_Witness ==
    \E r \in Calls :
        /\ reqs[r].kind = "stream"
        /\ pc[r] = "done"
        /\ outcome[r].kind = "ended"
        /\ outcome[r].after = "y_nocourses"

\* the calls whose generate_embedding obtained a vector from the provider
ObtainedVector == {r \in Calls : Len(locals[r]) > 0}

\* C23: after generate_embedding(text) has obtained a vector from the
\* provider, it returns that vector to its caller (its stage has not failed)
\* and the cache holds the vector under the key of the text, so that a
\* repeated call within the TTL is served from the cache.
C23_EmbeddingReturnedAndCached ==
    \A r \in ObtainedVector :
        /\ failed[r] # "embedding"
        /\ EmbCached(Store)
        /\ cache[EmbeddingKey(Description)] = locals[r][1]

(***************************************************************************)
(* Properties of the cache                                                 *)
(***************************************************************************)
\* the last operation read key k
Reads(k) ==
    \/ last.op \in {"get", "exists"} /\ last.key = k
    \/ last.op = "get_many" /\ k \in last.keys

\* the last operation found key k absent
ReportsAbsent(k) ==
    CASE last.op = "get" -> last.value = <<>>
      [] last.op = "exists" -> ~last.exists
      [] last.op = "get_many" -> k \notin DOMAIN last.values

\* the last write to key k was a set
LastSet(k) == k \in DOMAIN written /\ written[k].op = "set"

\* the ttl of a recorded set: the expire given, or default_expire when the
\* caller gave none
TTLOf(w) == IF w.expire # 0 THEN w.expire ELSE cache_ttl_seconds

\* more than the ttl of the last set of key k has elapsed
Elapsed(k) == LastSet(k) /\ now > written[k].at + TTLOf(written[k])

\* C20: set(k, v, ttl) followed immediately by get(k) returns v; once more
\* than ttl has elapsed since the set with no further write to k, get(k),
\* exists(k) and get_many([k]) all report the key as absent.
C20_RoundTripAndExpiry ==
    \A k \in CacheKeys :
        /\ (last.op = "get" /\ last.key = k /\ LastSet(k) /\ written[k].at = now) =>
                last.value = <<written[k].value>>
        /\ (Reads(k) /\ Elapsed(k)) => ReportsAbsent(k)

\* a get finds a key absent whose explicit ttl has run out
C20_Witness ==
    \E k \in CacheKeys :
        /\ last.op = "get"
        /\ last.key = k
        /\ Elapsed(k)
        /\ written[k].expire > 0
        /\ last.value = <<>>

\* the last operation wrote key k
WroteTo(k) ==
    \/ last.op \in {"set", "increment"} /\ last.key = k
    \/ last.op = "set_many" /\ k \in last.keys

\* C21: every write operation of the cache (set, set_many, increment, also
\* an increment that creates the key) leaves the written key with an expiry
\* instant in the future.
C21_WritesSetExpiry ==
    \A k \in CacheKeys :
        WroteTo(k) => (k \in DOMAIN expiry /\ expiry[k] > now)

\* the neutral value of each cache operation
Neutral(op) ==
    CASE op = "get" -> <<>>
      [] op \in {"set", "set_many", "delete", "exists"} -> FALSE
      [] op \in {"increment", "clear_pattern"} -> 0
      [] op = "get_many" -> <<>>

\* C22: with the backing store unreachable (no client, or a client whose
\* every call fails), every cache operation returns its neutral value (get:
\* absent; set, set_many, delete, exists: false; increment: 0; get_many:
\* empty mapping; clear_pattern: 0) and none raises.
C22_UnreachableIsNeutral ==
    (last.op \in RedisOps /\ last.client # "up") =>
        /\ ~last.result.raised
        /\ last.result.value = Neutral(last.op)

\* an increment went to a client whose server holds keys and is down
C22_Witness ==
    /\ last.op = "increment"
    /\ last.client = "down"
    /\ DOMAIN cache # {}
    /\ last.result.value = 0

\* the entries a reader can see at instant t
Readable(S, t) == cleanup_expired(S, t)

\* C24: check_quota changes no state: whether it accepts or rejects, the
\* accumulated daily count and every other readable cache entry are after
\* the check what they were before it, so a check that follows a check
\* returns the same decision.
C24_CheckQuotaChangesNothing ==
    [][last'.op = "check_quota" =>
          /\ Readable(Store', now') = Readable(Store, now)
          /\ DailyCount' = DailyCount
          /\ last.op = "check_quota" => last' = last]_vars

\* a check rejected the requester while an override entry was in the cache
C24_Witness ==
    /\ last.op = "check_quota"
    /\ ~last.allowed
    /\ DailyCount > 0
    /\ QuotaOverrideKey(user.id) \in DOMAIN cache

\* the requester's department has a limit configured
DepartmentConfigured ==
    /\ user.department # NoDepartment
    /\ user.department \in DOMAIN department_quotas(settings)

\* the role-based default for the requester's role
RoleDefault ==
    IF user.role \in DOMAIN role_quotas(settings)
    THEN role_quotas(settings)[user.role]
    ELSE DefaultRoleQuota

Rollover(t) == (MinuteOf(t) + 1) * SecondsPerMinute

\* C26: when check_rate_limit rejects, retry_after is the number of seconds
\* left until the current minute bucket rolls over and reset_time is the
\* instant of the rollover; a retry after retry_after seconds is in a fresh
\* bucket.
C26_RetryAfterIsRemaining ==
    (last.op = "check_rate_limit" /\ ~last.allowed) =>
        /\ last.retry_after = Rollover(now) - now
        /\ last.reset_time = Rollover(now)
        /\ MinuteOf(now + last.retry_after) # MinuteOf(now)

\* C27: for a fixed requester and day, with no reset_user_quota in between,
\* the accumulated daily count read by check_quota never decreases from one
\* observation to the next, under every interleaving of concurrent
\* record_request calls.
C27_CountNeverDecreases ==
    [][(last.op = "check_quota" /\ last'.op = "check_quota") =>
          last'.current_usage >= last.current_usage]_vars

\* the filter explicitly asks for inactive courses
AsksForInactive(filters) == filters.kind = "CourseFilter" /\ filters.include_inactive

\* the corpus rows of the matches in a returned sequence
RowsOf(matches) == {corpus.courses[i] : i \in IdsOf(matches)}

\* C28: search_similar_courses never returns a course whose active flag is
\* false unless the filter passed to it sets include_inactive; this holds
\* for calls with a filter object and for calls with no filter at all
\* (stated for limits of at least 1).
C28_InactiveExcluded ==
    (/\ last.op = "search_similar_courses"
     /\ last.limit >= 1
     /\ ~AsksForInactive(last.filters)) =>
        \A row \in RowsOf(last.result) : row.is_active

\* a level filter was supplied with the call (levels is not None)
LevelsSupplied(filters) == filters.kind = "CourseFilter" /\ filters.levels # <<>>

\* C29: when a level filter is supplied (levels is not None), every course
\* returned by search_similar_courses and by get_recommendations has its
\* level in the supplied set; a supplied empty set yields no matches.
C29_LevelsRespected ==
    /\ (/\ last.op = "search_similar_courses"
        /\ last.limit >= 1
        /\ LevelsSupplied(last.filters)) =>
          \A row \in RowsOf(last.result) : row.level \in last.filters.levels[1]
    /\ (last.op = "get_recommendations" /\ LevelsSupplied(last.filters)) =>
          \A row \in RowsOf(last.recommendations) : row.level \in last.filters.levels[1]

\* the stored entries, without their expiry instants
Entries(S) == S.cache

C31_SlidingWindow ==
    (last.op = "check_rate_limit" /\ last.allowed) =>
        Len(InWindow(rlCalls.window, now)) <= get_rate_limit_for_user(user)

\* the stages of the two calls went the same way
SameStages(a, b) == failed[a] = failed[b] /\ expl[a] = expl[b]

\* C32: a failure inside usage recording never changes the outcome of a
\* pipeline call: UsageService.record_request returns false instead of
\* raising, and get_recommendations returns the same result, or raises the
\* same stage error, as it does with a working ledger.
C32_LedgerFailureIsSilent ==
    \A a, b \in Calls :
        (reqs[a].ledger = "working" /\ reqs[b].ledger \in LedgerFaults) =>
            /\ \A success \in BOOLEAN :
                  /\ ~Recording(b, success).raised
                  /\ ~Recording(b, success).returned
            /\ (pc[a] = "done" /\ pc[b] = "done" /\ SameStages(a, b)) =>
                  outcome[b] = outcome[a]

\* both calls returned matches; the ledger, unable to build a record, holds
\* the record of the first call only
C32_Witness ==
    \E a, b \in Calls :
        /\ reqs[a].ledger = "working" /\ reqs[b].ledger = "record"
        /\ pc[a] = "done" /\ pc[b] = "done"
        /\ outcome[b].kind = "returned" /\ outcome[b].recommendations > 0
        /\ outcome[a] = outcome[b]
        /\ RecordsOf(a) # {} /\ RecordsOf(b) = {}

\* the kinds of what call r has yielded so far, in order
KindsOf(r) == [i \in 1..Len(emitted[r]) |-> emitted[r][i].kind]

\* the last thing call r yielded is the marker m
JustMarked(r, m) == emitted[r] # <<>> /\ emitted[r][Len(emitted[r])].kind = m

\* the provider chunks call r has yielded, in order
ChunksOf(r) ==
    LET IsChunk(x) == x.kind = "chunk"
    IN  SelectSeq(emitted[r], IsChunk)

C34_GatesBeforePipeline ==
    (last.op = "endpoint" /\ (~last.rate_allowed \/ ~last.quota_allowed)) =>
        /\ ~last.pipeline
        /\ Calls = {}
        /\ usage_records = <<>>

\* a request turned away by the rate-limit gate, and a request made with the
\* daily quota used up
C34_Witness ==
    /\ last.op = "endpoint"
    /\ ~last.pipeline
    /\ \/ last.gate = "rate_limit" /\ last.status = 429
       \/ last.gate = "quota" /\ ~last.quota_allowed

\* C35: after any set of accepted check_rate_limit calls for one requester
\* in one minute bucket, sequential or concurrent, the count stored for that
\* bucket equals the number of calls that were accepted: no accepted request
\* is lost from the count and none is counted twice.
C35_StoredCountIsAccepted ==
    (/\ \A r \in Calls : reqs[r].kind = "check_rate_limit" /\ pc[r] \in {"idle", "done"}
     /\ rlCalls.accepted > 0) =>
        /\ RateLimitKey(user, now) \in DOMAIN cache
        /\ cache[RateLimitKey(user, now)] = rlCalls.accepted

\* C36: when the cache is unavailable, the gates fail open: every
\* check_rate_limit and check_quota call returns a decision with allowed =
\* true, none raises, and record_request still reports success, so no
\* request is rejected for as long as the cache stays unavailable.
C36_GatesFailOpen ==
    (last.op \in {"check_rate_limit", "check_quota", "record_request"}
        /\ last.client # "up") =>
            /\ ~last.raised
            /\ last.allowed
            /\ last.op = "record_request" => last.value

\* with the day's count at the quota in the store, the server is lost and
\* check_quota lets the requester through
C36_Witness ==
    /\ last.op = "check_quota"
    /\ last.client = "down"
    /\ last.allowed
    /\ DailyUsageKey(user.id, now) \in DOMAIN cache
    /\ LimitReached(Deserialize(cache[DailyUsageKey(user.id, now)]),
                    get_quota_for_user(settings, user))

C38_ResetReportsSuccess ==
    (last.op = "reset_user_quota"
        /\ GetOr(cleanup_expired(Store, now), DailyUsageKey(user.id, now), 0) = 0) =>
            last.value = TRUE

ErrorKinds == {"error", "chunk_error"}

\* a stage raised into stream_recommendations, or the provider stream failed
\* inside stream_recommendations_text
StageRaised(r) ==
    \/ failed[r] \in {"description", "embedding"}
    \/ (outcome[r].kind = "ended" /\ outcome[r].after = "y_stream_error")

NextRate ==
    \/ Tick
    \/ CheckRateLimit

SpecRate == InitQuota /\ [][NextRate]_vars

\* the daily quota and its administration under a moving clock
NextQuota ==
    \/ Tick
    \/ CheckQuota
    \/ RecordRequest
    \/ ResetUserQuota
    \/ UpdateUserQuota

SpecQuota == InitQuota /\ [][NextQuota]_vars

====
